---- MODULE Spec2Model ----
(***************************************************************************)
(* Model of the paint-calculators library.                                 *)
(*                                                                         *)
(* The library is a set of functions over an exported table of constants.  *)
(* A state of the model is one call: the function called, its input        *)
(* object and, once the call has been made, its outcome (a returned        *)
(* result or a thrown Error), together with the current contents of the    *)
(* exported constants and the calls completed so far.                      *)
(*                                                                         *)
(* JavaScript numbers are modelled as exact rationals <<n, d>> in lowest   *)
(* terms with d > 0, extended with <<1, 0>> (Infinity), <<-1, 0>>          *)
(* (-Infinity) and <<0, 0>> (NaN); arithmetic follows the IEEE rules for   *)
(* these special values.  The representation error of binary64 on finite   *)
(* values is not modelled.                                                 *)
(***************************************************************************)
EXTENDS Integers, Sequences, FiniteSets, TLC

VARIABLES fn, input, result, constants, history
vars == <<fn, input, result, constants, history>>

---------------------------------------------------------------------------
(* JavaScript number arithmetic *)

Abs(x) == IF x < 0 THEN -x ELSE x

Sign(x) == IF x > 0 THEN 1 ELSE IF x < 0 THEN -1 ELSE 0

RECURSIVE GCD(_, _)
GCD(a, b) == IF b = 0 THEN a ELSE GCD(b, a % b)

\* gcd of two naturals, 1 when both are 0
G(a, b) == IF a = 0 /\ b = 0 THEN 1 ELSE GCD(a, b)

\* the number n/d in lowest terms; d = 0 gives Infinity, -Infinity or NaN
Norm(n, d) ==
    IF d = 0 THEN <<Sign(n), 0>>
    ELSE LET g == G(Abs(n), Abs(d))
             s == Sign(d)
         IN <<(s * n) \div g, (s * d) \div g>>

Num(k) == <<k, 1>>
Frac(n, d) == Norm(n, d)

NaN == <<0, 0>>
Infinity == <<1, 0>>
NegInfinity == <<-1, 0>>

IsNaN(x) == x = NaN
IsFinite(x) == x[2] # 0

\* x * y
Mul(x, y) ==
    LET g1 == G(Abs(x[1]), y[2])
        g2 == G(Abs(y[1]), x[2])
    IN Norm((x[1] \div g1) * (y[1] \div g2), (x[2] \div g2) * (y[2] \div g1))

\* 1 / x (the sign of a zero is not modelled: 1/0 is Infinity)
Recip(x) == Norm(x[2], x[1])

\* x / y
Div(x, y) == Mul(x, Recip(y))

\* x + y; the whole parts and the fractional parts are added separately
Add(x, y) ==
    IF IsNaN(x) \/ IsNaN(y) THEN NaN
    ELSE IF ~IsFinite(x) /\ ~IsFinite(y) THEN (IF x = y THEN x ELSE NaN)
    ELSE IF ~IsFinite(x) THEN x
    ELSE IF ~IsFinite(y) THEN y
    ELSE LET g == G(x[2], y[2])
             d == (x[2] \div g) * y[2]
             w == (x[1] \div x[2]) + (y[1] \div y[2])
             f == (x[1] % x[2]) * (y[2] \div g) + (y[1] % y[2]) * (x[2] \div g)
         IN Norm(w * d + f, d)

Neg(x) == <<-x[1], x[2]>>

Sub(x, y) == Add(x, Neg(y))

\* x < y; false when either is NaN
Lt(x, y) ==
    IF IsNaN(x) \/ IsNaN(y) THEN FALSE
    ELSE IF ~IsFinite(x) /\ ~IsFinite(y) THEN x[1] < y[1]
    ELSE IF ~IsFinite(x) THEN x[1] < 0
    ELSE IF ~IsFinite(y) THEN y[1] > 0
    ELSE LET g == G(x[2], y[2])
             wx == x[1] \div x[2]
             wy == y[1] \div y[2]
         IN \/ wx < wy
            \/ /\ wx = wy
               /\ (x[1] % x[2]) * (y[2] \div g) < (y[1] % y[2]) * (x[2] \div g)

\* x <= y; false when either is NaN
Le(x, y) == ~IsNaN(x) /\ ~IsNaN(y) /\ (x = y \/ Lt(x, y))

Gt(x, y) == Lt(y, x)
Ge(x, y) == Le(y, x)

\* Math.ceil
MathCeil(x) == IF IsFinite(x) THEN Num(-((-x[1]) \div x[2])) ELSE x

\* Math.floor
MathFloor(x) == IF IsFinite(x) THEN Num(x[1] \div x[2]) ELSE x

\* Math.round: the nearest integer, a half rounding towards +Infinity
MathRound(x) ==
    IF IsFinite(x)
    THEN LET r == x[1] % x[2]
         IN Num((x[1] \div x[2]) + (IF r >= x[2] - r THEN 1 ELSE 0))
    ELSE x

\* x * k for an integer k > 0, as the pair <<whole part, remainder / x[2]>>:
\* the product is formed from the whole and the fractional part of x, so
\* that no intermediate exceeds the integer range
TimesParts(x, k) ==
    LET t == (x[1] % x[2]) * k
    IN <<(x[1] \div x[2]) * k + (t \div x[2]), t % x[2]>>

\* Math.round(x * k)
RoundTimes(x, k) ==
    IF IsFinite(x)
    THEN LET p == TimesParts(x, k)
         IN Num(p[1] + (IF p[2] >= x[2] - p[2] THEN 1 ELSE 0))
    ELSE x

\* Math.ceil(x * k)
CeilTimes(x, k) ==
    IF IsFinite(x)
    THEN LET p == TimesParts(x, k)
         IN Num(p[1] + (IF p[2] > 0 THEN 1 ELSE 0))
    ELSE x

\* a value is falsy in "v || 0" when it is 0 or NaN
Truthy(x) == ~IsNaN(x) /\ x # Num(0)

---------------------------------------------------------------------------
(* Constants: the exported objects CONSTANTS, MAGNUS and CONVERSIONS as     *)
(* the module creates them (the entries a calculation reads, and the        *)
(* conversion factors).  They are ordinary objects: the variable constants *)
(* holds their current contents, and every calculation reads them there.   *)

ExportedConstants ==
    ("CONSTANTS" :>
        [COVERAGE_CONSTANT |-> Num(1604),
         DEW_POINT_MARGIN |-> Num(5),
         VOC_LIMITS |-> [NON_FLAT |-> Num(150)]])
    @@ ("MAGNUS" :> [A |-> Frac(1727, 100), B |-> Frac(2377, 10)])
    @@ ("CONVERSIONS" :>
        [SQ_FT_TO_SQ_M |-> Frac(92903, 1000000),
         SQ_FT_TO_SQ_YD |-> Frac(111111, 1000000),
         GALLON_TO_LITER |-> Frac(378541, 100000),
         MIL_TO_MICRON |-> Frac(254, 10),
         PSI_TO_BAR |-> Frac(689476, 10000000)])

COVERAGE_CONSTANT == constants["CONSTANTS"].COVERAGE_CONSTANT
DEW_POINT_MARGIN == constants["CONSTANTS"].DEW_POINT_MARGIN
VOC_LIMIT_NON_FLAT == constants["CONSTANTS"].VOC_LIMITS.NON_FLAT
MAGNUS_A == constants.MAGNUS.A
MAGNUS_B == constants.MAGNUS.B

---------------------------------------------------------------------------
(* Objects: a JavaScript object is a record; an omitted property is a      *)
(* field the record does not have.                                         *)

Has(obj, key) == key \in DOMAIN obj

\* destructuring with a default: "{ key = dflt } = obj"
GetOr(obj, key, dflt) == IF Has(obj, key) THEN obj[key] ELSE dflt

\* the record obj extended (or overwritten) with key |-> val
With(obj, key, val) ==
    [k \in DOMAIN obj \cup {key} |-> IF k = key THEN val ELSE obj[k]]

Throw(msg) == [threw |-> TRUE, message |-> msg]
Return(v) == [threw |-> FALSE, value |-> v]

---------------------------------------------------------------------------
(* Coverage engine *)

\* destructuring defaults of calculatePaintCoverage
coatsOf(in) == GetOr(in, "coats", Num(1))
transferEfficiencyOf(in) == GetOr(in, "transferEfficiency", Num(65))
pricePerGallonOf(in) == GetOr(in, "pricePerGallon", Num(0))

\* the three guards, in the order the code tests them
SurfaceAreaInvalid(in) == Le(in.surfaceArea, Num(0))
\* variant: 100% solids rejected
VolumeSolidsInvalid_Inclusive(in) ==
    Le(in.volumeSolids, Num(0)) \/ Ge(in.volumeSolids, Num(100))
VolumeSolidsInvalid(in) == Le(in.volumeSolids, Num(0)) \/ Gt(in.volumeSolids, Num(100))
TargetDFTInvalid(in) == Le(in.targetDFT, Num(0))

\* the unrounded quantities
theoreticalCoverage(in) ==
    Div(Div(Mul(COVERAGE_CONSTANT, in.volumeSolids), Num(100)), in.targetDFT)

\* variant: the transfer efficiency left out
practicalCoverage_NoEfficiency(in) == theoreticalCoverage(in)

practicalCoverage(in) ==
    Mul(theoreticalCoverage(in), Div(transferEfficiencyOf(in), Num(100)))

gallonsPerCoat(in) == Div(in.surfaceArea, practicalCoverage(in))

totalGallons(in) == Mul(gallonsPerCoat(in), coatsOf(in))

\* variant: a 20% allowance
wasteFactorGallons_Double(in) == Mul(totalGallons(in), Frac(2, 10))

wasteFactorGallons(in) == Mul(totalGallons(in), Frac(1, 10))

totalWithWaste(in) == Add(totalGallons(in), wasteFactorGallons(in))

\* variant: partial buckets dropped
fiveGallonBuckets_Floor(in) == MathFloor(Div(totalWithWaste(in), Num(5)))

fiveGallonBuckets(in) == MathCeil(Div(totalWithWaste(in), Num(5)))

oneGallonCans(in) == MathCeil(totalWithWaste(in))

estimatedCost(in) ==
    IF Gt(pricePerGallonOf(in), Num(0))
    THEN Mul(totalWithWaste(in), pricePerGallonOf(in))
    ELSE Num(0)

\* Math.round(x * 10) / 10
RoundTenth(x) == Div(RoundTimes(x, 10), Num(10))

\* variant: material rounded to the nearest tenth
CeilTenth_Nearest(x) == Div(RoundTimes(x, 10), Num(10))

\* Math.ceil(x * 10) / 10
CeilTenth(x) == Div(CeilTimes(x, 10), Num(10))

\* Math.round(x * 100) / 100
RoundCent(x) == Div(RoundTimes(x, 100), Num(100))

calculatePaintCoverage(in) ==
    IF SurfaceAreaInvalid(in) THEN Throw("Surface area must be greater than 0")
    ELSE IF VolumeSolidsInvalid(in) THEN Throw("Volume solids must be between 0 and 100")
    ELSE IF TargetDFTInvalid(in) THEN Throw("Target DFT must be greater than 0")
    ELSE Return([
        theoreticalCoverage |-> RoundTenth(theoreticalCoverage(in)),
        practicalCoverage |-> RoundTenth(practicalCoverage(in)),
        gallonsPerCoat |-> CeilTenth(gallonsPerCoat(in)),
        totalGallons |-> CeilTenth(totalGallons(in)),
        totalWithWaste |-> CeilTenth(totalWithWaste(in)),
        wasteFactorGallons |-> CeilTenth(wasteFactorGallons(in)),
        fiveGallonBuckets |-> fiveGallonBuckets(in),
        oneGallonCans |-> oneGallonCans(in),
        estimatedCost |-> RoundCent(estimatedCost(in)),
        coveragePerGallon |-> MathRound(practicalCoverage(in))])

---------------------------------------------------------------------------
(* Number to string, as a template literal converts it *)

RECURSIVE FractionDigits(_, _, _)
\* the decimal digits of r / d (0 <= r < d), at most k of them
FractionDigits(r, d, k) ==
    IF r = 0 \/ k = 0 THEN ""
    ELSE ToString((r * 10) \div d) \o FractionDigits((r * 10) % d, d, k - 1)

\* the longest fraction a number is printed with
MaxFractionDigits == 17

NumberToString(x) ==
    IF IsNaN(x) THEN "NaN"
    ELSE IF x = Infinity THEN "Infinity"
    ELSE IF x = NegInfinity THEN "-Infinity"
    ELSE LET a == Abs(x[1])
             whole == ToString(a \div x[2])
             frac == FractionDigits(a % x[2], x[2], MaxFractionDigits)
         IN (IF x[1] < 0 THEN "-" ELSE "")
            \o whole \o (IF frac = "" THEN "" ELSE "." \o frac)

RECURSIVE Join(_, _)
\* Array.prototype.join
Join(strs, sep) ==
    IF strs = <<>> THEN ""
    ELSE IF Len(strs) = 1 THEN strs[1]
    ELSE strs[1] \o sep \o Join(Tail(strs), sep)

---------------------------------------------------------------------------
(* Multi-coat system *)

\* variant: the layers are visited from the topcoat down
LayerTypes_TopDown == <<"topcoat", "intermediate", "primer">>

\* the layer names in the order calculateMultiCoatSystem visits them
LayerTypes == <<"primer", "intermediate", "topcoat">>

\* An object with insertion order is a sequence of entries, one per key.
RECURSIVE Lookup(_, _)
\* system[key]: the sequence with the value when the key is present, <<>> when not
Lookup(entries, key) ==
    IF entries = <<>> THEN <<>>
    ELSE IF Head(entries).key = key THEN <<Head(entries).layer>>
    ELSE Lookup(Tail(entries), key)

\* variant: every layer that is present is processed
LayerIncluded_Present(found) == found # <<>>

\* variant: a layer without coats is processed too
LayerIncluded_ZeroCoats(found) == found # <<>> /\ Ge(found[1].coats, Num(0))

\* "layer && layer.coats > 0"
LayerIncluded(found) == found # <<>> /\ Gt(found[1].coats, Num(0))

\* "layer.pricePerGallon || 0"
LayerPrice(layer) ==
    IF Has(layer, "pricePerGallon") /\ Truthy(layer.pricePerGallon)
    THEN layer.pricePerGallon ELSE Num(0)

\* variant: a layer's own transfer efficiency takes precedence
LayerEfficiency_Override(in, layer) ==
    GetOr(layer, "transferEfficiency", GetOr(in, "transferEfficiency", Num(65)))

\* the transfer efficiency a layer is computed with
LayerEfficiency(in, layer) == GetOr(in, "transferEfficiency", Num(65))

\* the input calculateMultiCoatSystem hands to calculatePaintCoverage for a layer
LayerCoverageInput(in, layer) ==
    [surfaceArea |-> in.surfaceArea,
     coats |-> layer.coats,
     volumeSolids |-> layer.volumeSolids,
     targetDFT |-> layer.dft,
     transferEfficiency |-> LayerEfficiency(in, layer),
     pricePerGallon |-> LayerPrice(layer)]

\* variant: the thickness of one coat
layerDFT_PerCoat(layer) == layer.dft

layerDFT(layer) == Mul(layer.dft, layer.coats)

\* variant: the waste allowance is charged
layerCost_WithWaste(coverage, layer) == Mul(coverage.totalWithWaste, LayerPrice(layer))

layerCost(coverage, layer) == Mul(coverage.totalGallons, LayerPrice(layer))

\* "layers[layerType] = { ...coverage, totalDFT, cost }"
LayerResult(coverage, layer) ==
    With(With(coverage, "totalDFT", layerDFT(layer)),
         "cost", RoundCent(layerCost(coverage, layer)))

\* the accumulators before the first layer
EmptyTotals ==
    [threw |-> FALSE, layers |-> <<>>,
     totalCost |-> Num(0), totalDFT |-> Num(0), totalGallons |-> Num(0)]

\* the accumulators after a layer whose quantities are the given outcome of
\* calculatePaintCoverage: an error it raised is the outcome of the system
AddLayer(layerType, layer, acc, outcome) ==
    IF outcome.threw THEN outcome
    ELSE [threw |-> FALSE,
          layers |-> Append(acc.layers,
              [key |-> layerType, layer |-> LayerResult(outcome.value, layer)]),
          totalCost |-> Add(acc.totalCost, layerCost(outcome.value, layer)),
          totalDFT |-> Add(acc.totalDFT, layerDFT(layer)),
          totalGallons |-> Add(acc.totalGallons, outcome.value.totalGallons)]

\* the body of the callback, found being system[layerType]
VisitLayer(in, layerType, acc, found) ==
    IF acc.threw \/ ~LayerIncluded(found) THEN acc
    ELSE AddLayer(layerType, found[1], acc,
                  calculatePaintCoverage(LayerCoverageInput(in, found[1])))

\* the callback of forEach, for one layer type
ProcessLayer(in, layerType, acc) ==
    VisitLayer(in, layerType, acc, Lookup(in.system, layerType))

RECURSIVE ProcessLayers(_, _, _)
\* the forEach over the layer types from position i on
ProcessLayers(in, i, acc) ==
    IF i > Len(LayerTypes) THEN acc
    ELSE ProcessLayers(in, i + 1, ProcessLayer(in, LayerTypes[i], acc))

\* one line of the description, for a layer that has an entry
Describe(layers, key, name) ==
    LET found == Lookup(layers, key)
    IN IF found = <<>> THEN <<>>
       ELSE <<name \o ": " \o NumberToString(found[1].totalDFT) \o " mils DFT">>

\* variant: the topcoat is described first
generateSystemDescription_TopcoatFirst(layers) ==
    Join(Describe(layers, "topcoat", "Topcoat")
         \o Describe(layers, "intermediate", "Intermediate")
         \o Describe(layers, "primer", "Primer"), " | ")

generateSystemDescription(layers) ==
    Join(Describe(layers, "primer", "Primer")
         \o Describe(layers, "intermediate", "Intermediate")
         \o Describe(layers, "topcoat", "Topcoat"), " | ")

\* the result of the system from the accumulators after the last layer
SystemResult(in, acc) ==
    IF acc.threw THEN acc
    ELSE Return([
         layers |-> acc.layers,
         summary |-> [
             totalDFT |-> RoundTenth(acc.totalDFT),
             totalCost |-> RoundCent(acc.totalCost),
             costPerSquareFoot |-> RoundCent(Div(acc.totalCost, in.surfaceArea)),
             totalGallons |-> RoundTenth(acc.totalGallons),
             systemDescription |-> generateSystemDescription(acc.layers)]])

calculateMultiCoatSystem(in) == SystemResult(in, ProcessLayers(in, 1, EmptyTotals))

---------------------------------------------------------------------------
(* Project cost estimate *)

\* the table of getProductionRate, in square feet per hour
ProductionRates ==
    [walls |-> [good |-> Num(200), fair |-> Num(150), poor |-> Num(100)],
     ceilings |-> [good |-> Num(150), fair |-> Num(120), poor |-> Num(80)],
     floors |-> [good |-> Num(250), fair |-> Num(200), poor |-> Num(150)],
     trim |-> [good |-> Num(50), fair |-> Num(40), poor |-> Num(30)]]

\* variant: a key missing from the table gets the slowest rate
getProductionRate_Slowest(surfaceType, condition) ==
    IF surfaceType \in DOMAIN ProductionRates
       /\ condition \in DOMAIN ProductionRates[surfaceType]
    THEN ProductionRates[surfaceType][condition]
    ELSE Num(30)

\* "rates[surfaceType]?.[condition] || 150"
getProductionRate(surfaceType, condition) ==
    IF surfaceType \in DOMAIN ProductionRates
       /\ condition \in DOMAIN ProductionRates[surfaceType]
    THEN ProductionRates[surfaceType][condition]
    ELSE Num(150)

\* variant: 65 only when the surface has no transfer efficiency
SurfaceEfficiency_AbsentOnly(surface) == GetOr(surface, "transferEfficiency", Num(65))

\* "surface.transferEfficiency || 65"
SurfaceEfficiency(surface) ==
    IF Has(surface, "transferEfficiency") /\ Truthy(surface.transferEfficiency)
    THEN surface.transferEfficiency ELSE Num(65)

\* the input estimateProjectCost hands to calculateMultiCoatSystem for a surface
SurfaceMaterialsInput(surface) ==
    [surfaceArea |-> surface.area,
     system |-> surface.coatingSystem,
     transferEfficiency |-> SurfaceEfficiency(surface)]

surfaceLaborHours(surface) ==
    Div(surface.area, getProductionRate(surface.type, surface.condition))

\* the breakdown entry of a surface
SurfaceResult(in, surface, materials) ==
    [description |-> surface.description,
     area |-> surface.area,
     materialCost |-> materials.summary.totalCost,
     laborHours |-> RoundTenth(surfaceLaborHours(surface)),
     laborCost |-> MathRound(Mul(Mul(surfaceLaborHours(surface), in.laborRate),
                                 in.crewSize))]

\* the accumulators before the first surface
EmptyProject ==
    [threw |-> FALSE, breakdown |-> <<>>,
     totalMaterialCost |-> Num(0), totalLaborHours |-> Num(0),
     totalSurfaceArea |-> Num(0)]

\* the accumulators after a surface whose materials are the given outcome of
\* calculateMultiCoatSystem: an error it raised is the outcome of the estimate
AddSurface(in, surface, acc, outcome) ==
    IF outcome.threw THEN outcome
    ELSE [threw |-> FALSE,
          breakdown |-> Append(acc.breakdown,
                               SurfaceResult(in, surface, outcome.value)),
          totalMaterialCost |->
              Add(acc.totalMaterialCost, outcome.value.summary.totalCost),
          totalLaborHours |-> Add(acc.totalLaborHours, surfaceLaborHours(surface)),
          totalSurfaceArea |-> Add(acc.totalSurfaceArea, surface.area)]

\* next when it is no error, and acc when it is
SkipFailure(acc, next) == IF next.threw THEN acc ELSE next

\* variant: a surface that fails is left out of the estimate
ProcessSurface_SkipFailed(in, surface, acc) ==
    IF acc.threw THEN acc
    ELSE SkipFailure(acc,
             AddSurface(in, surface, acc,
                        calculateMultiCoatSystem(SurfaceMaterialsInput(surface))))

\* the callback of surfaces.map, for one surface
ProcessSurface(in, surface, acc) ==
    IF acc.threw THEN acc
    ELSE AddSurface(in, surface, acc,
                    calculateMultiCoatSystem(SurfaceMaterialsInput(surface)))

RECURSIVE ProcessSurfaces(_, _, _)
\* surfaces.map from position i on
ProcessSurfaces(in, i, acc) ==
    IF i > Len(in.surfaces) THEN acc
    ELSE ProcessSurfaces(in, i + 1, ProcessSurface(in, in.surfaces[i], acc))

projectLaborCost(in, acc) == Mul(Mul(acc.totalLaborHours, in.laborRate), in.crewSize)

directCosts(in, acc) == Add(acc.totalMaterialCost, projectLaborCost(in, acc))

overhead(in, acc) == Mul(directCosts(in, acc), Div(in.overheadPercent, Num(100)))

subtotal(in, acc) == Add(directCosts(in, acc), overhead(in, acc))

profit(in, acc) == Mul(subtotal(in, acc), Div(in.profitMargin, Num(100)))

projectTotal(in, acc) == Add(subtotal(in, acc), profit(in, acc))

\* the result of the estimate from the accumulators after the last surface
ProjectResult(in, acc) ==
    IF acc.threw THEN acc
    ELSE Return([
         breakdown |-> acc.breakdown,
         summary |-> [
             totalSurfaceArea |-> MathRound(acc.totalSurfaceArea),
             materialCost |-> RoundCent(acc.totalMaterialCost),
             laborCost |-> RoundCent(projectLaborCost(in, acc)),
             laborHours |-> RoundTenth(acc.totalLaborHours),
             directCosts |-> RoundCent(directCosts(in, acc)),
             overhead |-> RoundCent(overhead(in, acc)),
             profit |-> RoundCent(profit(in, acc)),
             total |-> RoundCent(projectTotal(in, acc)),
             pricePerSqFt |-> RoundCent(Div(projectTotal(in, acc), acc.totalSurfaceArea))]])

estimateProjectCost(in) == ProjectResult(in, ProcessSurfaces(in, 1, EmptyProject))

---------------------------------------------------------------------------
(* Inexact operations.  Math.log has no rational value, and the quotients  *)
(* that follow it have no short one: the result of such an operation is    *)
(* carried with FloatDigits decimals, the nearest such number standing for *)
(* the nearest binary64.                                                   *)

FloatDigits == 4

RECURSIVE Digits(_, _, _, _)
\* the first k decimals of r / d (0 <= r < d) after the digits acc, as the
\* pair <<digits, remainder>>
Digits(r, d, k, acc) ==
    IF k = 0 THEN <<acc, r>>
    ELSE Digits((r * 10) % d, d, k - 1, acc * 10 + ((r * 10) \div d))

\* x to the nearest number of FloatDigits decimals
Float(x) ==
    IF IsFinite(x)
    THEN LET p == Digits(x[1] % x[2], x[2], FloatDigits, x[1] \div x[2])
         IN Norm(p[1] + (IF p[2] >= x[2] - p[2] THEN 1 ELSE 0), 10 ^ FloatDigits)
    ELSE x

\* the number of terms of the series of the logarithm
LogTerms == 12

RECURSIVE LogSeries(_, _, _, _)
\* sum + z^(2k+1)/(2k+1) + ... up to the term LogTerms - 1, with power =
\* z^(2k+1) and square = z^2 (NaN plus any term is NaN)
LogSeries(power, square, k, sum) ==
    IF k = LogTerms \/ IsNaN(sum) THEN sum
    ELSE LogSeries(Float(Mul(power, square)), square, k + 1,
                   Float(Add(sum, Float(Div(power, Num(2 * k + 1))))))

\* Math.log: ln x = 2 artanh((x - 1) / (x + 1)) for a finite x > 0
MathLog(x) ==
    IF IsNaN(x) \/ Lt(x, Num(0)) THEN NaN
    ELSE IF x = Num(0) THEN NegInfinity
    ELSE IF x = Infinity THEN Infinity
    ELSE LET z == Float(Div(Sub(x, Num(1)), Add(x, Num(1))))
         IN Float(Mul(Num(2), LogSeries(z, Float(Mul(z, z)), 0, Num(0))))

---------------------------------------------------------------------------
(* Dew point *)

\* variant: the temperature term is left out
alpha_HumidityOnly(in) == Float(MathLog(Div(in.humidity, Num(100))))

\* the Magnus formula, applied to the temperature as it is given
alpha(in) ==
    Float(Add(Div(Mul(MAGNUS_A, in.temperature), Add(MAGNUS_B, in.temperature)),
              MathLog(Div(in.humidity, Num(100)))))

dewPoint(in) == Div(Mul(MAGNUS_B, alpha(in)), Sub(MAGNUS_A, alpha(in)))

\* variant: the surface has the temperature of the air
surfaceTemp_Ambient(in) == in.temperature

\* the surface is taken to be 5 degrees colder than the air
surfaceTemp(in) == Sub(in.temperature, Num(5))

currentMargin(in) == Sub(surfaceTemp(in), dewPoint(in))

isSafe(in) == Ge(currentMargin(in), DEW_POINT_MARGIN)

\* variant: the dew point itself, without the margin
minimumSurfaceTemp_NoMargin(in) == dewPoint(in)

minimumSurfaceTemp(in) == Add(dewPoint(in), DEW_POINT_MARGIN)

\* the temperature the warning names
recommendedTemp(in) == MathRound(Add(dewPoint(in), Num(5)))

\* the pictographs that open the two messages are written [v] and [!]
recommendation(in) ==
    IF isSafe(in)
    THEN "[v] Conditions are acceptable for painting"
    ELSE "[!] Warning: Risk of condensation. Wait until surface temp is above "
         \o NumberToString(recommendedTemp(in)) \o "°F"

calculateDewPoint(in) ==
    Return([
        dewPoint |-> RoundTenth(dewPoint(in)),
        minimumSurfaceTemp |-> RoundTenth(minimumSurfaceTemp(in)),
        currentMargin |-> RoundTenth(currentMargin(in)),
        isSafe |-> isSafe(in),
        recommendation |-> recommendation(in)])

---------------------------------------------------------------------------
(* VOC emissions *)

ventilationRateOf(in) == GetOr(in, "ventilationRate", Num(0))
ceilingHeightOf(in) == GetOr(in, "ceilingHeight", Num(10))

totalVOC(in) == Mul(in.coatingVolume, in.vocContent)

vocPerSqFt(in) == Div(totalVOC(in), in.area)

\* variant: the limit of the coating's category, 50 g/L for a flat coating
isCompliant_ByCategory(in) ==
    Le(in.vocContent,
       IF Has(in, "category") /\ in.category = "FLAT" THEN Num(50)
       ELSE VOC_LIMIT_NON_FLAT)

isCompliant(in) == Le(in.vocContent, VOC_LIMIT_NON_FLAT)

airChangesPerHour(in) ==
    IF Gt(ventilationRateOf(in), Num(0))
    THEN Div(Mul(ventilationRateOf(in), Num(60)), Mul(in.area, ceilingHeightOf(in)))
    ELSE Num(0)

estimatedClearTime(in) ==
    IF Gt(ventilationRateOf(in), Num(0))
    THEN Div(totalVOC(in), Mul(ventilationRateOf(in), Frac(75, 1000)))
    ELSE Num(0)

\* the recommendations in the order they are pushed; the pictograph that
\* opens the first one is written [!]
vocRecommendations(in) ==
    (IF ~isCompliant(in) THEN <<"[!] VOC content exceeds regulatory limits">> ELSE <<>>)
    \o (IF Lt(airChangesPerHour(in), Num(4))
        THEN <<"Increase ventilation to minimum 4 air changes per hour">> ELSE <<>>)
    \o (IF Gt(in.vocContent, Num(50))
        THEN <<"Consider using low-VOC alternatives (<50 g/L)">> ELSE <<>>)

calculateVOC(in) ==
    Return([
        totalVOC |-> RoundCent(totalVOC(in)),
        vocPerSqFt |-> RoundCent(vocPerSqFt(in)),
        regulatoryLimit |-> VOC_LIMIT_NON_FLAT,
        isCompliant |-> isCompliant(in),
        airChangesPerHour |-> RoundTenth(airChangesPerHour(in)),
        estimatedClearTime |-> RoundTenth(estimatedClearTime(in)),
        recommendations |-> vocRecommendations(in)])

---------------------------------------------------------------------------
(* Return on investment *)

energyCostsOf(in) == GetOr(in, "energyCosts", Frac(12, 100))
discountRateOf(in) == GetOr(in, "discountRate", Frac(5, 100))

\* "obj[key] || 0"
OrZero(obj, key) == IF Has(obj, key) /\ Truthy(obj[key]) THEN obj[key] ELSE Num(0)

currentTotalAnnual(in) ==
    Add(Div(in.currentSystem.maintenanceCost, in.currentSystem.lifespan),
        Mul(Mul(Mul(OrZero(in.currentSystem, "heatTransfer"), in.facilitySize),
                energyCostsOf(in)), Frac(1, 100)))

proposedTotalAnnual(in) ==
    Sub(Div(in.proposedSystem.maintenanceCost, in.proposedSystem.lifespan),
        Mul(Mul(Mul(OrZero(in.proposedSystem, "reflectivity"), in.facilitySize),
                energyCostsOf(in)), Frac(15, 10000)))

annualSavings(in) == Sub(currentTotalAnnual(in), proposedTotalAnnual(in))

paybackPeriod(in) == Div(in.proposedSystem.initialCost, annualSavings(in))

tenYearSavings(in) == Mul(annualSavings(in), Num(10))

tenYearROI(in) ==
    Mul(Div(Sub(tenYearSavings(in), in.proposedSystem.initialCost),
            in.proposedSystem.initialCost), Num(100))

RECURSIVE DiscountedFlows(_, _, _, _, _, _)
\* the loop of calculateNPV from the given year on: npv is the value so far
\* and factor is Math.pow(1 + discountRate, year - 1) (NaN plus any flow is NaN)
DiscountedFlows(annualCashFlow, years, discountRate, year, factor, npv) ==
    IF year > years \/ IsNaN(npv) THEN npv
    ELSE LET power == Float(Mul(factor, Add(Num(1), discountRate)))
         IN DiscountedFlows(annualCashFlow, years, discountRate, year + 1, power,
                            Add(npv, Float(Div(annualCashFlow, power))))

calculateNPV(annualCashFlow, initialInvestment, years, discountRate) ==
    DiscountedFlows(annualCashFlow, years, discountRate, 1, Num(1),
                    Neg(initialInvestment))

\* variant: the horizon is the life of the proposed system
netPresentValue_Lifespan(in) ==
    calculateNPV(annualSavings(in), in.proposedSystem.initialCost,
                 in.proposedSystem.lifespan[1], discountRateOf(in))

netPresentValue(in) ==
    calculateNPV(annualSavings(in), in.proposedSystem.initialCost, 10,
                 discountRateOf(in))

calculateROI(in) ==
    Return([
        currentSystem |-> [
            annualCost |-> RoundCent(currentTotalAnnual(in)),
            tenYearCost |-> RoundCent(Mul(currentTotalAnnual(in), Num(10)))],
        proposedSystem |-> [
            initialCost |-> in.proposedSystem.initialCost,
            annualSavings |-> RoundCent(annualSavings(in)),
            tenYearSavings |-> RoundCent(tenYearSavings(in))],
        roi |-> [
            paybackPeriod |-> RoundTenth(paybackPeriod(in)),
            tenYearROI |-> RoundTenth(tenYearROI(in)),
            netPresentValue |-> RoundCent(netPresentValue(in))]])

\* calculateLaborCost(area, laborRate, productionRate = 150), the arguments
\* given as a record
calculateLaborCost(in) ==
    Return(RoundCent(Mul(Div(in.area, GetOr(in, "productionRate", Num(150))),
                         in.laborRate)))

---------------------------------------------------------------------------
(* Wet film thickness *)

reductionPercentOf(in) == GetOr(in, "reductionPercent", Num(0))

adjustedSolids(in) ==
    Mul(in.volumeSolids, Sub(Num(1), Div(reductionPercentOf(in), Num(100))))

wetFilmThickness(in) == Mul(Div(in.targetDFT, adjustedSolids(in)), Num(100))

\* variant: the gauge is chosen from the thickness rounded to one decimal
wetFilmGauge_Rounded(in) ==
    IF Le(RoundTenth(wetFilmThickness(in)), Num(25)) THEN "0-25 mil gauge"
    ELSE IF Le(RoundTenth(wetFilmThickness(in)), Num(50)) THEN "0-50 mil gauge"
    ELSE IF Le(RoundTenth(wetFilmThickness(in)), Num(100)) THEN "0-100 mil gauge"
    ELSE "Use multiple passes or special gauge"

wetFilmGauge(in) ==
    IF Le(wetFilmThickness(in), Num(25)) THEN "0-25 mil gauge"
    ELSE IF Le(wetFilmThickness(in), Num(50)) THEN "0-50 mil gauge"
    ELSE IF Le(wetFilmThickness(in), Num(100)) THEN "0-100 mil gauge"
    ELSE "Use multiple passes or special gauge"

applicationTips(in) ==
    (IF Gt(wetFilmThickness(in), Num(20))
     THEN <<"Apply in multiple passes to avoid sagging">> ELSE <<>>)
    \o (IF Gt(reductionPercentOf(in), Num(10))
        THEN <<"Thinning by " \o NumberToString(reductionPercentOf(in))
               \o "% may affect coating properties">> ELSE <<>>)
    \o (IF Lt(adjustedSolids(in), Num(50))
        THEN <<"Multiple coats may be required for proper build">> ELSE <<>>)
    \o <<"Check WFT immediately after application using " \o wetFilmGauge(in)>>

\* variant: a coating thinned to no solids is rejected
calculateWFT_Validating(in) ==
    IF adjustedSolids(in) = Num(0) THEN Throw("Adjusted solids must be greater than 0")
    ELSE Return([
        wetFilmThickness |-> RoundTenth(wetFilmThickness(in)),
        adjustedSolids |-> RoundTenth(adjustedSolids(in)),
        wetFilmGauge |-> wetFilmGauge(in),
        applicationTips |-> applicationTips(in)])

calculateWFT(in) ==
    Return([
        wetFilmThickness |-> RoundTenth(wetFilmThickness(in)),
        adjustedSolids |-> RoundTenth(adjustedSolids(in)),
        wetFilmGauge |-> wetFilmGauge(in),
        applicationTips |-> applicationTips(in)])

---------------------------------------------------------------------------
(* Primer *)

\* the arguments are (surfaceArea, _substrateType = "drywall", _porosity =
\* "medium"); the table of coverage by substrate and porosity is commented
\* out, and the call is made with the solids, thickness and transfer
\* efficiency of a typical primer
calculatePrimerNeeded(in) ==
    calculatePaintCoverage([
        surfaceArea |-> in.surfaceArea,
        coats |-> Num(1),
        volumeSolids |-> Num(35),
        targetDFT |-> Frac(15, 10),
        transferEfficiency |-> Num(75)])

---------------------------------------------------------------------------
(* Surface area *)

\* Math.PI, to six decimals
MathPI == Frac(355, 113)

\* "obj[key]" used as a condition
TruthyAt(obj, key) == Has(obj, key) /\ Truthy(obj[key])

\* case 'rectangular': length * width, replaced by the wall area (perimeter *
\* height) when there is a height
rectangularArea(dimensions) ==
    IF TruthyAt(dimensions, "height")
    THEN Mul(Mul(Num(2), Add(OrZero(dimensions, "length"), OrZero(dimensions, "width"))),
             dimensions.height)
    ELSE IF TruthyAt(dimensions, "length") /\ TruthyAt(dimensions, "width")
         THEN Mul(dimensions.length, dimensions.width)
         ELSE Num(0)

\* the lateral area 2 pi r h, with the two ends 2 pi r^2 when they are included
cylinderArea(radius, height, includeEnds) ==
    Add(Mul(Mul(Mul(Num(2), MathPI), radius), height),
        IF includeEnds THEN Mul(Mul(Num(2), MathPI), Mul(radius, radius)) ELSE Num(0))

\* case 'cylindrical'
cylindricalArea(dimensions) ==
    IF TruthyAt(dimensions, "radius") /\ TruthyAt(dimensions, "height")
    THEN cylinderArea(dimensions.radius, dimensions.height,
                      TruthyAt(dimensions, "includeEnds"))
    ELSE IF TruthyAt(dimensions, "diameter") /\ TruthyAt(dimensions, "height")
         THEN cylinderArea(Div(dimensions.diameter, Num(2)), dimensions.height,
                           TruthyAt(dimensions, "includeEnds"))
         ELSE Num(0)

\* 4 pi r^2
sphereArea(radius) == Mul(Mul(Num(4), MathPI), Mul(radius, radius))

\* case 'spherical'
sphericalArea(dimensions) ==
    IF TruthyAt(dimensions, "radius") THEN sphereArea(dimensions.radius)
    ELSE IF TruthyAt(dimensions, "diameter")
         THEN sphereArea(Div(dimensions.diameter, Num(2)))
         ELSE Num(0)

\* the switch over the shape; a shape without a case leaves the area 0
grossArea(in) ==
    CASE in.shape = "rectangular" -> rectangularArea(in.dimensions)
      [] in.shape = "cylindrical" -> cylindricalArea(in.dimensions)
      [] in.shape = "spherical" -> sphericalArea(in.dimensions)
      [] in.shape = "complex" -> OrZero(in.dimensions, "totalArea")
      [] OTHER -> Num(0)

RECURSIVE ReduceDeductions(_, _)
\* deductions.reduce(...) from the given total on
ReduceDeductions(deductions, total) ==
    IF deductions = <<>> THEN total
    ELSE ReduceDeductions(Tail(deductions),
             Add(total, Mul(Mul(Head(deductions).width, Head(deductions).height),
                            Head(deductions).quantity)))

\* variant: the openings are not subtracted
deductionArea_None(in) == Num(0)

deductionArea(in) == ReduceDeductions(GetOr(in, "deductions", <<>>), Num(0))

\* the result for a gross area and a net area
SurfaceAreaResult(gross, deducted, net) ==
    Return([
        grossArea |-> RoundTenth(gross),
        deductionArea |-> RoundTenth(deducted),
        netArea |-> RoundTenth(net),
        addWasteFactor |-> RoundTenth(Mul(net, Frac(10, 100))),
        measurement |-> [
            squareFeet |-> RoundTenth(net),
            squareMeters |-> RoundCent(Float(Mul(net, Frac(92903, 1000000)))),
            squareYards |-> RoundCent(Div(net, Num(9)))]])

calculateSurfaceArea(in) ==
    SurfaceAreaResult(grossArea(in), deductionArea(in),
                      Sub(grossArea(in), deductionArea(in)))

---------------------------------------------------------------------------
(* Spreading rate *)

\* the arguments are (wft, volumeSolids); the result is a number
calculateSpreadingRate(in) ==
    Return(RoundTenth(Div(Mul(COVERAGE_CONSTANT, in.volumeSolids),
                          Div(Mul(in.wft, in.volumeSolids), Num(100)))))

---------------------------------------------------------------------------
(* Inputs *)

\* bounds of the inputs the calls are made with
MaxAreaSteps == 2
MaxCoats == 2

AreaValues == {Num(500 * k) : k \in -1 .. MaxAreaSteps}
CoatsValues == {Num(k) : k \in -1 .. MaxCoats}
VolumeSolidsValues == {Num(0), Num(65), Num(100), Num(101)}
DFTValues == {Num(0), Frac(1, 10000), Num(3), Num(5)}
EfficiencyValues == {Num(0), Num(65), Num(100)}
PriceValues == {Num(0), Num(45)}

\* the records base extended with key |-> v for v in vals, or left without key
Optional(base, key, vals) ==
    base \cup {With(b, key, v) : b \in base, v \in vals}

CoverageInputs ==
    Optional(Optional(Optional(
        [surfaceArea : AreaValues, volumeSolids : VolumeSolidsValues, targetDFT : DFTValues],
        "coats", CoatsValues),
        "transferEfficiency", EfficiencyValues),
        "pricePerGallon", PriceValues)

\* coating layers offered under each layer name: the primer and the topcoat
\* of the test suite, layers with every coat count, layers that fail a
\* precondition, a layer without coats that is invalid in every field, and a
\* layer that carries a transfer efficiency of its own
LayerValues(key) ==
    IF key = "primer" THEN
        {[volumeSolids |-> Num(75), dft |-> Num(3), coats |-> Num(1),
          pricePerGallon |-> Num(35)],
         [volumeSolids |-> Num(101), dft |-> Num(3), coats |-> Num(1),
          pricePerGallon |-> Num(45)],
         [volumeSolids |-> Num(101), dft |-> Num(0), coats |-> Num(-1),
          pricePerGallon |-> Num(45)]}
    ELSE IF key = "intermediate" THEN
        {[volumeSolids |-> Num(65), dft |-> Num(5), coats |-> Num(c)] : c \in 0 .. MaxCoats}
        \cup {[volumeSolids |-> Num(65), dft |-> Frac(5, 2), coats |-> Num(1),
               pricePerGallon |-> Num(45), transferEfficiency |-> Num(100)]}
    ELSE
        {[volumeSolids |-> Num(65), dft |-> Num(3), coats |-> Num(2),
          pricePerGallon |-> Num(45)],
         [volumeSolids |-> Num(65), dft |-> Num(5), coats |-> Num(2)],
         [volumeSolids |-> Num(65), dft |-> Num(0), coats |-> Num(1)]}

\* the sequences of entries with distinct keys: every subset of the layer
\* names, in every key order
Systems ==
    LET Keys == {LayerTypes[i] : i \in 1 .. Len(LayerTypes)}
        Entries == UNION {[key : {k}, layer : LayerValues(k)] : k \in Keys}
    IN UNION {{s \in [1 .. n -> Entries] :
                  \A i, j \in 1 .. n : i # j => s[i].key # s[j].key}
              : n \in 0 .. Len(LayerTypes)}

SystemEfficiencyValues == {Num(100)}

MultiCoatInputs ==
    Optional([surfaceArea : AreaValues, system : Systems],
             "transferEfficiency", SystemEfficiencyValues)

\* the surfaces of a project: the primer and topcoat system of the test suite
\* on every surface type and condition of the rate table and on a type and a
\* condition the table does not have, and surfaces with a transfer efficiency
\* of their own, one of them 0, a surface whose primer fails validation and a
\* surface without area or coating
MaxSurfaces == 2

StandardSystem ==
    <<[key |-> "primer",
       layer |-> [volumeSolids |-> Num(75), dft |-> Num(3), coats |-> Num(1),
                  pricePerGallon |-> Num(35)]],
      [key |-> "topcoat",
       layer |-> [volumeSolids |-> Num(65), dft |-> Num(3), coats |-> Num(2),
                  pricePerGallon |-> Num(45)]]>>

TopcoatSystem == <<StandardSystem[2]>>

\* calls of calculateMultiCoatSystem with a transfer efficiency of 0
ZeroEfficiencyInputs ==
    {[surfaceArea |-> Num(1000), system |-> s, transferEfficiency |-> Num(0)]
     : s \in {StandardSystem, TopcoatSystem}}

FailingSystem ==
    <<StandardSystem[2],
      [key |-> "primer",
       layer |-> [volumeSolids |-> Num(101), dft |-> Num(3), coats |-> Num(1),
                  pricePerGallon |-> Num(45)]]>>

SurfaceTypes == {"walls", "ceilings", "floors", "trim", "doors"}
SurfaceConditions == {"good", "fair", "poor", "new"}

GridSurfaces ==
    {[description |-> t \o ", " \o c, area |-> Num(1000), type |-> t,
      condition |-> c, coatingSystem |-> StandardSystem]
     : t \in SurfaceTypes, c \in SurfaceConditions}

SpecialSurfaces ==
    {[description |-> "Accent wall", area |-> Num(500), type |-> "walls",
      condition |-> "fair", coatingSystem |-> TopcoatSystem,
      transferEfficiency |-> Num(100)],
     [description |-> "Door frames", area |-> Num(500), type |-> "trim",
      condition |-> "good", coatingSystem |-> TopcoatSystem,
      transferEfficiency |-> Num(0)],
     [description |-> "Tank roof", area |-> Num(500), type |-> "ceilings",
      condition |-> "poor", coatingSystem |-> FailingSystem],
     [description |-> "Not measured", area |-> Num(0), type |-> "floors",
      condition |-> "good", coatingSystem |-> <<>>]}

ProjectSurfaces == GridSurfaces \cup SpecialSurfaces

\* the surfaces that precede the last one of a list
LeadSurfaces ==
    SpecialSurfaces
    \cup {s \in GridSurfaces : s.type = "walls" /\ s.condition = "good"}

SurfaceLists ==
    UNION {{s \in [1 .. n -> ProjectSurfaces] :
               \A i \in 1 .. n - 1 : s[i] \in LeadSurfaces}
           : n \in 0 .. MaxSurfaces}

ProjectCostInputs ==
    [surfaces : SurfaceLists, laborRate : {Num(45)}, crewSize : {Num(1), Num(2)},
     overheadPercent : {Num(0), Num(15)}, profitMargin : {Num(20)}]

\* air temperatures, among them the one where the Magnus denominator is 0,
\* and relative humidities from below 0 to 100; and the air at 60 degrees and
\* 62%, whose margin is 4.97
TemperatureValues == {Num(50), Num(75), Num(95), Frac(-2377, 10)}
HumidityValues == {Num(-10), Num(0), Num(35), Num(65), Num(85), Num(100)}

DewPointInputs ==
    [temperature : TemperatureValues, humidity : HumidityValues]
    \cup {[temperature |-> Num(60), humidity |-> Num(62)]}

\* inputs of calculateVOC, among them an area of 0 and no coating
VOCInputs ==
    Optional(Optional(Optional(
        [coatingVolume : {Num(0), Num(10)},
         vocContent : {Num(50), Num(150), Num(151), Num(250)},
         area : {Num(0), Num(1000)}],
        "ventilationRate", {Num(0), Num(500)}),
        "ceilingHeight", {Num(8)}),
        "category", {"FLAT", "INDUSTRIAL"})

\* inputs of calculateROI, among them systems with the same annual cost (no
\* savings), a lifespan of 0 and no initial cost
ROIInputs ==
    Optional(
        [currentSystem :
            Optional([maintenanceCost : {Num(5000)}, lifespan : {Num(5)}],
                     "heatTransfer", {Num(10)}),
         proposedSystem :
            Optional([initialCost : {Num(0), Num(20000)},
                      maintenanceCost : {Num(2000), Num(5000)},
                      lifespan : {Num(0), Num(5), Num(10)}],
                     "reflectivity", {Num(80)}),
         facilitySize : {Num(10000)}],
        "discountRate", {Num(0)})

\* arguments of calculateLaborCost, among them a production rate of 0
LaborCostInputs ==
    Optional([area : {Num(0), Num(1000)}, laborRate : {Num(45)}],
             "productionRate", {Num(0), Num(200)})

\* target thicknesses whose wet films fall in each band of the gauges, on the
\* threshold of 25 mils (16.25 at 65% solids) and just above it (14.65 at 65%
\* solids thinned by 10%: 25.04 mils)
WFTTargetValues ==
    {Num(0), Num(3), Frac(1465, 100), Frac(1625, 100), Num(40), Num(100)}

\* inputs of calculateWFT, among them no solids and a reduction of 100%
WFTInputs ==
    Optional([targetDFT : WFTTargetValues, volumeSolids : {Num(0), Num(65)}],
             "reductionPercent", {Num(10), Num(15), Num(100)})

\* the outcome of a call that has not been made yet
NoResult == [threw |-> FALSE, pending |-> TRUE]

---------------------------------------------------------------------------
(* Calls *)

\* the record a completed call leaves in the history
Call(f, in, out) == [fn |-> f, input |-> in, result |-> out]

SurfaceDimensions ==
    { [length |-> Num(12), width |-> Num(10)],
      [length |-> Num(12), width |-> Num(10), height |-> Num(8)],
      [length |-> Num(12), height |-> Num(8)],
      [length |-> Num(12), width |-> Num(10), height |-> Num(0)],
      [length |-> Num(0), width |-> Num(10)],
      [radius |-> Num(2), height |-> Num(5)],
      [diameter |-> Num(4), height |-> Num(5)],
      [radius |-> Num(2), height |-> Num(5), includeEnds |-> Num(1)],
      [diameter |-> Num(4), height |-> Num(5), includeEnds |-> Num(1)],
      [radius |-> Num(2), height |-> Num(0), includeEnds |-> Num(1)],
      [radius |-> Num(2)],
      [diameter |-> Num(3)],
      [radius |-> Num(2), diameter |-> Num(6), height |-> Num(5)],
      [totalArea |-> Num(150)],
      [totalArea |-> Num(0)] }

DeductionLists ==
    { <<>>,
      << [width |-> Num(1), height |-> Num(2), quantity |-> Num(3)] >>,
      << [width |-> Num(3), height |-> Num(7), quantity |-> Num(1)],
         [width |-> Frac(5, 2), height |-> Num(1), quantity |-> Num(2)] >> }

SurfaceAreaInputs ==
    Optional([shape : {"rectangular", "cylindrical", "spherical", "complex"},
              dimensions : SurfaceDimensions],
             "deductions", DeductionLists)

\* arguments of calculatePrimerNeeded, the last two of them optional
PrimerInputs ==
    Optional(Optional(
        [surfaceArea : {Num(-100), Num(0), Num(1000), Num(2500)}],
        "substrateType", {"drywall", "wood", "masonry", "metal"}),
        "porosity", {"low", "medium", "high"})

\* arguments of calculateSpreadingRate, among them no film and no solids
SpreadingRateInputs ==
    [wft : {Num(0), Num(4), Num(5), Num(6)},
     volumeSolids : {Num(0), Num(50), Num(65), Num(100)}]

Init ==
    /\ result = NoResult
    /\ constants = ExportedConstants
    /\ history = <<>>
    /\ \/ fn = "calculatePaintCoverage" /\ input \in CoverageInputs
       \/ fn = "calculateMultiCoatSystem"
          /\ input \in MultiCoatInputs \cup ZeroEfficiencyInputs
       \/ fn = "estimateProjectCost" /\ input \in ProjectCostInputs
       \/ fn = "calculateDewPoint" /\ input \in DewPointInputs
       \/ fn = "calculateVOC" /\ input \in VOCInputs
       \/ fn = "calculateROI" /\ input \in ROIInputs
       \/ fn = "calculateLaborCost" /\ input \in LaborCostInputs
       \/ fn = "calculateWFT" /\ input \in WFTInputs
       \/ fn = "calculateSurfaceArea" /\ input \in SurfaceAreaInputs
       \/ fn = "calculatePrimerNeeded" /\ input \in PrimerInputs
       \/ fn = "calculateSpreadingRate" /\ input \in SpreadingRateInputs

\* a calculator that keeps state between calls: it recalibrates the coverage
\* constant after every call
CalculatePaintCoverage_Calibrating ==
    /\ fn = "calculatePaintCoverage"
    /\ result = NoResult
    /\ result' = calculatePaintCoverage(input)
    /\ history' = Append(history, Call(fn, input, result'))
    /\ constants' = [constants EXCEPT !["CONSTANTS"].COVERAGE_CONSTANT = Num(1600)]
    /\ UNCHANGED <<fn, input>>

CalculatePaintCoverage ==
    /\ fn = "calculatePaintCoverage"
    /\ result = NoResult
    /\ result' = calculatePaintCoverage(input)
    /\ history' = Append(history, Call(fn, input, result'))
    /\ UNCHANGED <<fn, input, constants>>

CalculateMultiCoatSystem ==
    /\ fn = "calculateMultiCoatSystem"
    /\ result = NoResult
    /\ result' = calculateMultiCoatSystem(input)
    /\ history' = Append(history, Call(fn, input, result'))
    /\ UNCHANGED <<fn, input, constants>>

\* a calculator that writes the default transfer efficiency into the surfaces
\* of the caller's input
EstimateProjectCost_FillsDefaults ==
    /\ fn = "estimateProjectCost"
    /\ result = NoResult
    /\ result' = estimateProjectCost(input)
    /\ history' = Append(history, Call(fn, input, result'))
    /\ input' = [input EXCEPT !.surfaces =
                    [i \in 1 .. Len(@) |->
                        With(@[i], "transferEfficiency", SurfaceEfficiency(@[i]))]]
    /\ UNCHANGED <<fn, constants>>

EstimateProjectCost ==
    /\ fn = "estimateProjectCost"
    /\ result = NoResult
    /\ result' = estimateProjectCost(input)
    /\ history' = Append(history, Call(fn, input, result'))
    /\ UNCHANGED <<fn, input, constants>>

CalculateDewPoint ==
    /\ fn = "calculateDewPoint"
    /\ result = NoResult
    /\ result' = calculateDewPoint(input)
    /\ history' = Append(history, Call(fn, input, result'))
    /\ UNCHANGED <<fn, input, constants>>

CalculateVOC ==
    /\ fn = "calculateVOC"
    /\ result = NoResult
    /\ result' = calculateVOC(input)
    /\ history' = Append(history, Call(fn, input, result'))
    /\ UNCHANGED <<fn, input, constants>>

CalculateROI ==
    /\ fn = "calculateROI"
    /\ result = NoResult
    /\ result' = calculateROI(input)
    /\ history' = Append(history, Call(fn, input, result'))
    /\ UNCHANGED <<fn, input, constants>>

CalculateLaborCost ==
    /\ fn = "calculateLaborCost"
    /\ result = NoResult
    /\ result' = calculateLaborCost(input)
    /\ history' = Append(history, Call(fn, input, result'))
    /\ UNCHANGED <<fn, input, constants>>

CalculateWFT ==
    /\ fn = "calculateWFT"
    /\ result = NoResult
    /\ result' = calculateWFT(input)
    /\ history' = Append(history, Call(fn, input, result'))
    /\ UNCHANGED <<fn, input, constants>>

CalculateSurfaceArea ==
    /\ fn = "calculateSurfaceArea"
    /\ result = NoResult
    /\ result' = calculateSurfaceArea(input)
    /\ history' = Append(history, Call(fn, input, result'))
    /\ UNCHANGED <<fn, input, constants>>

CalculatePrimerNeeded ==
    /\ fn = "calculatePrimerNeeded"
    /\ result = NoResult
    /\ result' = calculatePrimerNeeded(input)
    /\ history' = Append(history, Call(fn, input, result'))
    /\ UNCHANGED <<fn, input, constants>>

CalculateSpreadingRate ==
    /\ fn = "calculateSpreadingRate"
    /\ result = NoResult
    /\ result' = calculateSpreadingRate(input)
    /\ history' = Append(history, Call(fn, input, result'))
    /\ UNCHANGED <<fn, input, constants>>

Next ==
    \/ CalculatePaintCoverage
    \/ CalculateMultiCoatSystem
    \/ EstimateProjectCost
    \/ CalculateDewPoint
    \/ CalculateVOC
    \/ CalculateROI
    \/ CalculateLaborCost
    \/ CalculateWFT
    \/ CalculateSurfaceArea
    \/ CalculatePrimerNeeded
    \/ CalculateSpreadingRate

Spec == Init /\ [][Next]_vars

---------------------------------------------------------------------------
(* Sessions: a caller makes several calls one after the other, and, the    *)
(* exported objects being ordinary objects, may assign their entries.      *)

\* the most calls of a session
MaxCalls == 3

\* the calls of a session: every calculator once, on the inputs of the test
\* suite and of the README, and a call whose input fails validation
SessionCalls ==
    {[fn |-> "calculatePaintCoverage",
      input |-> [surfaceArea |-> Num(1000), coats |-> Num(2),
                 volumeSolids |-> Num(65), targetDFT |-> Num(5),
                 transferEfficiency |-> Num(65), pricePerGallon |-> Num(45)]],
     [fn |-> "calculatePaintCoverage",
      input |-> [surfaceArea |-> Num(0), coats |-> Num(2),
                 volumeSolids |-> Num(65), targetDFT |-> Num(5),
                 transferEfficiency |-> Num(65), pricePerGallon |-> Num(45)]],
     [fn |-> "calculateMultiCoatSystem",
      input |-> [surfaceArea |-> Num(1000), system |-> StandardSystem]],
     [fn |-> "estimateProjectCost",
      input |-> [surfaces |->
                     <<[description |-> "Main walls", area |-> Num(1000),
                        type |-> "walls", condition |-> "good",
                        coatingSystem |-> StandardSystem]>>,
                 laborRate |-> Num(45), crewSize |-> Num(2),
                 overheadPercent |-> Num(15), profitMargin |-> Num(20)]],
     [fn |-> "calculateDewPoint",
      input |-> [temperature |-> Num(75), humidity |-> Num(65)]],
     [fn |-> "calculateVOC",
      input |-> [coatingVolume |-> Num(10), vocContent |-> Num(150),
                 area |-> Num(1000)]],
     [fn |-> "calculateROI",
      input |-> [currentSystem |-> [maintenanceCost |-> Num(5000),
                                    lifespan |-> Num(5)],
                 proposedSystem |-> [initialCost |-> Num(20000),
                                     maintenanceCost |-> Num(2000),
                                     lifespan |-> Num(10)],
                 facilitySize |-> Num(10000), discountRate |-> Num(0)]],
     [fn |-> "calculateLaborCost",
      input |-> [area |-> Num(1000), laborRate |-> Num(45)]],
     [fn |-> "calculateWFT",
      input |-> [targetDFT |-> Num(3), volumeSolids |-> Num(65),
                 reductionPercent |-> Num(10)]],
     [fn |-> "calculateSurfaceArea",
      input |-> [shape |-> "cylindrical",
                 dimensions |-> [radius |-> Num(2), height |-> Num(5)],
                 deductions |->
                     << [width |-> Num(1), height |-> Num(2),
                         quantity |-> Num(3)] >>]],
     [fn |-> "calculatePrimerNeeded",
      input |-> [surfaceArea |-> Num(1000), substrateType |-> "masonry",
                 porosity |-> "high"]],
     [fn |-> "calculateSpreadingRate",
      input |-> [wft |-> Num(4), volumeSolids |-> Num(50)]]}

SessionInit ==
    /\ result = NoResult
    /\ constants = ExportedConstants
    /\ history = <<>>
    /\ \E c \in SessionCalls : fn = c.fn /\ input = c.input

\* the caller, the last call having completed, makes the next call
NextCall ==
    /\ result # NoResult
    /\ Len(history) < MaxCalls
    /\ \E c \in SessionCalls : fn' = c.fn /\ input' = c.input
    /\ result' = NoResult
    /\ UNCHANGED <<constants, history>>

SessionNext == Next \/ NextCall

Session == SessionInit /\ [][SessionNext]_vars

\* the most entries of the exported objects a caller assigns in a session
MaxWrites == 1

\* the entries a calculation reads, by the path of the property
ReadEntries ==
    {<<"CONSTANTS", "COVERAGE_CONSTANT">>, <<"CONSTANTS", "DEW_POINT_MARGIN">>,
     <<"CONSTANTS", "VOC_LIMITS", "NON_FLAT">>, <<"MAGNUS", "A">>,
     <<"MAGNUS", "B">>}

\* the value of the entry at a path
Entry(table, path) ==
    IF Len(path) = 2 THEN table[path[1]][path[2]]
    ELSE table[path[1]][path[2]][path[3]]

\* the assignment "CONSTANTS.COVERAGE_CONSTANT = value" and its like
Assign(table, path, value) ==
    IF Len(path) = 2 THEN [table EXCEPT ![path[1]][path[2]] = value]
    ELSE [table EXCEPT ![path[1]][path[2]][path[3]] = value]

\* the assignments of a caller: an entry is halved
CallerAssignments ==
    {[path |-> p, value |-> Div(Entry(ExportedConstants, p), Num(2))]
     : p \in ReadEntries}

Assigned(table) ==
    {p \in ReadEntries : Entry(table, p) # Entry(ExportedConstants, p)}

\* the caller assigns an entry of an exported object between two calls
CallerWrites ==
    /\ \E a \in CallerAssignments :
          /\ constants' = Assign(constants, a.path, a.value)
          /\ constants' # constants
          /\ Cardinality(Assigned(constants')) <= MaxWrites
    /\ UNCHANGED <<fn, input, result, history>>

CallerNext == Next \/ NextCall \/ CallerWrites

CallerSession == SessionInit /\ [][CallerNext]_vars

---------------------------------------------------------------------------
(* Properties of calculatePaintCoverage *)

CoverageCalled == fn = "calculatePaintCoverage" /\ result # NoResult
CoverageReturned == CoverageCalled /\ ~result.threw

\* the inputs of the example of the test suite and of the README
ExampleInput ==
    [surfaceArea |-> Num(1000), coats |-> Num(2), volumeSolids |-> Num(65),
     targetDFT |-> Num(5), transferEfficiency |-> Num(65), pricePerGallon |-> Num(45)]

\* the value object of the data model: positive area, solids in (0, 100],
\* positive DFT, at least one coat, efficiency in (0, 100], no negative price
ValidCoverageSpec(in) ==
    /\ in.surfaceArea[1] > 0
    /\ in.volumeSolids[1] > 0 /\ in.volumeSolids[1] <= 100 * in.volumeSolids[2]
    /\ in.targetDFT[1] > 0
    /\ coatsOf(in)[1] >= coatsOf(in)[2]
    /\ transferEfficiencyOf(in)[1] > 0
    /\ transferEfficiencyOf(in)[1] <= 100 * transferEfficiencyOf(in)[2]
    /\ pricePerGallonOf(in)[1] >= 0

\* C1: calculatePaintCoverage throws exactly when surfaceArea <= 0, or
\* volumeSolids <= 0 or > 100, or targetDFT <= 0; the message it throws names
\* a violated precondition (and the violated one when only one is violated);
\* volumeSolids = 100 with targetDFT = 0.0001 and a positive area succeeds.
C1_ValidationErrors ==
    CoverageCalled =>
        LET badArea == input.surfaceArea[1] <= 0
            badSolids == \/ input.volumeSolids[1] <= 0
                         \/ input.volumeSolids[1] > 100 * input.volumeSolids[2]
            badDFT == input.targetDFT[1] <= 0
        IN /\ result.threw <=> (badArea \/ badSolids \/ badDFT)
           /\ result.threw =>
                \/ result.message = "Surface area must be greater than 0" /\ badArea
                \/ result.message = "Volume solids must be between 0 and 100" /\ badSolids
                \/ result.message = "Target DFT must be greater than 0" /\ badDFT
           /\ (badArea /\ ~badSolids /\ ~badDFT) =>
                result.message = "Surface area must be greater than 0"
           /\ (~badArea /\ badSolids /\ ~badDFT) =>
                result.message = "Volume solids must be between 0 and 100"
           /\ (~badArea /\ ~badSolids /\ badDFT) =>
                result.message = "Target DFT must be greater than 0"
           /\ (~badArea /\ input.volumeSolids = Num(100)
                        /\ input.targetDFT = Frac(1, 10000)) => ~result.threw

\* a call with volumeSolids = 101 and nothing else wrong has thrown the
\* volume-solids error
C1_Witness ==
    /\ CoverageCalled
    /\ input.surfaceArea = Num(1000) /\ input.volumeSolids = Num(101)
    /\ input.targetDFT = Num(5)
    /\ result.threw
    /\ result.message = "Volume solids must be between 0 and 100"

\* the reference formula of the coverage result, from the six parameters
ReferenceCoverage(area, coats, solids, dft, efficiency, price) ==
    LET theoretical == Div(Mul(Num(1604), Div(solids, Num(100))), dft)
        practical == Div(Mul(theoretical, efficiency), Num(100))
        perCoat == Div(area, practical)
        total == Mul(perCoat, coats)
        waste == Div(total, Num(10))
        withWaste == Add(total, waste)
        cost == IF price[1] > 0 THEN Mul(withWaste, price) ELSE Num(0)
    IN [theoretical |-> theoretical, practical |-> practical, perCoat |-> perCoat,
        total |-> total, waste |-> waste, withWaste |-> withWaste, cost |-> cost]

\* C2: every returned result is the reference formula (K = 1604, efficiency 65
\* and coats 1 when omitted, 10% waste, cost only for a positive price) with
\* the rounding of each field applied; the example (1000 sq ft, 2 coats, 65%
\* solids, 5 mils, 65%, 45 per gallon) gives 208.5, 135.5, 7.4, 14.8 and a
\* positive cost.
C2_ReferenceFormula ==
    CoverageReturned =>
        LET ref == ReferenceCoverage(
                      input.surfaceArea,
                      IF Has(input, "coats") THEN input.coats ELSE Num(1),
                      input.volumeSolids,
                      input.targetDFT,
                      IF Has(input, "transferEfficiency")
                          THEN input.transferEfficiency ELSE Num(65),
                      IF Has(input, "pricePerGallon")
                          THEN input.pricePerGallon ELSE Num(0))
            r == result.value
        IN /\ r.theoreticalCoverage = Div(RoundTimes(ref.theoretical, 10), Num(10))
           /\ r.practicalCoverage = Div(RoundTimes(ref.practical, 10), Num(10))
           /\ r.gallonsPerCoat = Div(CeilTimes(ref.perCoat, 10), Num(10))
           /\ r.totalGallons = Div(CeilTimes(ref.total, 10), Num(10))
           /\ r.wasteFactorGallons = Div(CeilTimes(ref.waste, 10), Num(10))
           /\ r.totalWithWaste = Div(CeilTimes(ref.withWaste, 10), Num(10))
           /\ r.estimatedCost = Div(RoundTimes(ref.cost, 100), Num(100))
           /\ input = ExampleInput =>
                /\ r.theoreticalCoverage = Frac(2085, 10)
                /\ r.practicalCoverage = Frac(1355, 10)
                /\ r.gallonsPerCoat = Frac(74, 10)
                /\ r.totalGallons = Frac(148, 10)
                /\ r.estimatedCost[1] > 0

\* the example has been computed
C2_Witness ==
    /\ CoverageReturned
    /\ input = ExampleInput
    /\ result.value.theoreticalCoverage = Frac(2085, 10)
    /\ result.value.totalGallons = Frac(148, 10)

\* r is a whole number of units of 1/k
IsMultipleOfUnit(r, k) == IsFinite(r) /\ k % r[2] = 0

\* r is e rounded up to the next multiple of 1/10
IsRoundedUpTenth(r, e) ==
    /\ IsMultipleOfUnit(r, 10)
    /\ Ge(r, e)
    /\ Lt(Sub(r, e), Frac(1, 10))

\* r is a multiple of 1/k nearest to e
IsNearest(r, e, k) ==
    /\ IsMultipleOfUnit(r, k)
    /\ Le(Sub(r, e), Frac(1, 2 * k))
    /\ Le(Sub(e, r), Frac(1, 2 * k))

GuardedPreconditions(in) ==
    /\ in.surfaceArea[1] > 0
    /\ in.volumeSolids[1] > 0 /\ in.volumeSolids[1] <= 100 * in.volumeSolids[2]
    /\ in.targetDFT[1] > 0

\* totalWithWaste >= totalGallons >= gallonsPerCoat > 0 and both container
\* counts cover the returned totalWithWaste
QuantitiesOrdered(r) ==
    /\ Ge(r.totalWithWaste, r.totalGallons)
    /\ Ge(r.totalGallons, r.gallonsPerCoat)
    /\ Gt(r.gallonsPerCoat, Num(0))
    /\ Ge(r.fiveGallonBuckets, MathCeil(Div(r.totalWithWaste, Num(5))))
    /\ Ge(r.oneGallonCans, MathCeil(r.totalWithWaste))

\* C4 as stated: for every input with positive area, solids in (0, 100] and
\* positive DFT, whatever coats and transferEfficiency, the returned
\* quantities are ordered and the container counts cover totalWithWaste.
C4_Original ==
    (CoverageCalled /\ GuardedPreconditions(input)) =>
        ~result.threw /\ QuantitiesOrdered(result.value)

\* C4 amended: the same, for inputs with at least one coat and a positive
\* transfer efficiency.
C4_OrderedQuantities ==
    (CoverageCalled /\ GuardedPreconditions(input)
        /\ Ge(coatsOf(input), Num(1)) /\ Gt(transferEfficiencyOf(input), Num(0))) =>
        ~result.threw /\ QuantitiesOrdered(result.value)

\* the example: 7.4 a coat, 14.8 for two coats, 16.3 with waste, 4 buckets
C4_Witness ==
    /\ CoverageReturned
    /\ input = ExampleInput
    /\ result.value.gallonsPerCoat = Frac(74, 10)
    /\ result.value.totalGallons = Frac(148, 10)
    /\ result.value.totalWithWaste = Frac(163, 10)
    /\ result.value.fiveGallonBuckets = Num(4)
    /\ result.value.oneGallonCans = Num(17)

\* the absolute value of a finite number
AbsNum(x) == <<Abs(x[1]), x[2]>>

\* C5: for a valid coverage spec the returned totalWithWaste is within 0.11
\* of 1.10 times the returned totalGallons, and is at most the returned
\* totalGallons plus the returned wasteFactorGallons.
C5_WasteAllowance ==
    (CoverageReturned /\ ValidCoverageSpec(input)) =>
        LET r == result.value
        IN /\ Lt(AbsNum(Sub(r.totalWithWaste, Mul(r.totalGallons, Frac(110, 100)))),
                 Frac(11, 100))
           /\ Le(r.totalWithWaste, Add(r.totalGallons, r.wasteFactorGallons))

\* the example: 16.3 against 1.1 * 14.8 = 16.28 and against 14.8 + 1.5
C5_Witness ==
    /\ CoverageReturned
    /\ input = ExampleInput
    /\ result.value.totalWithWaste = Frac(163, 10)
    /\ result.value.totalGallons = Frac(148, 10)
    /\ result.value.wasteFactorGallons = Frac(15, 10)

---------------------------------------------------------------------------
(* Properties of calculateMultiCoatSystem *)

MultiCalled == fn = "calculateMultiCoatSystem" /\ result # NoResult
MultiReturned == MultiCalled /\ ~result.threw

LayerNames == {"primer", "intermediate", "topcoat"}

\* the layers of the test suite
TestPrimer ==
    [volumeSolids |-> Num(75), dft |-> Num(3), coats |-> Num(1), pricePerGallon |-> Num(35)]
TestTopcoat ==
    [volumeSolids |-> Num(65), dft |-> Num(3), coats |-> Num(2), pricePerGallon |-> Num(45)]
PlainTopcoat == [volumeSolids |-> Num(65), dft |-> Num(5), coats |-> Num(2)]
OwnEfficiencyLayer ==
    [volumeSolids |-> Num(65), dft |-> Frac(5, 2), coats |-> Num(1),
     pricePerGallon |-> Num(45), transferEfficiency |-> Num(100)]

\* the keys of an object given as a sequence of entries
KeysOf(entries) == {entries[i].key : i \in 1 .. Len(entries)}

\* the layer stored under a key that is present
LayerAt(entries, key) ==
    (CHOOSE e \in {entries[i] : i \in 1 .. Len(entries)} : e.key = key).layer

\* the entry of the input system is present with a positive coat count
HasCoats(entry) == entry.layer.coats[1] > 0

\* the names of the input layers that are present with coats > 0
IncludedNames == KeysOf(SelectSeq(input.system, HasCoats))

\* the unit price of an input layer, 0 when it has none
PriceOf(layer) == IF "pricePerGallon" \in DOMAIN layer THEN layer.pricePerGallon ELSE Num(0)

\* the sum of Term(name) over the names in the set, in the fixed order
SumNames(names, Term(_)) ==
    LET Part(name) == IF name \in names THEN Term(name) ELSE Num(0)
    IN Add(Add(Part("primer"), Part("intermediate")), Part("topcoat"))

\* C6: the result has a layer entry for exactly the input layers that are
\* present with coats > 0, and it is the result of the system with every
\* other layer removed: an absent or coatless layer contributes nothing.
C6_IncludedLayers ==
    MultiReturned =>
        /\ KeysOf(result.value.layers) = IncludedNames
        /\ Len(result.value.layers) = Cardinality(IncludedNames)
        /\ result = calculateMultiCoatSystem(
                        [input EXCEPT !.system = SelectSeq(input.system, HasCoats)])

\* a system with the test primer and an intermediate layer of 0 coats has
\* returned the primer alone
C6_Witness ==
    /\ MultiReturned
    /\ KeysOf(input.system) = {"primer", "intermediate"}
    /\ LayerAt(input.system, "primer") = TestPrimer
    /\ LayerAt(input.system, "intermediate").coats = Num(0)
    /\ KeysOf(result.value.layers) = {"primer"}
    /\ result.value.summary.totalDFT = Num(3)

\* C7: summary.totalDFT is the sum of dft * coats over the included layers,
\* to one decimal; summary.totalGallons is the sum of the layers' returned
\* totalGallons; costPerSquareFoot is the total cost over the area, to cents.
\* A topcoat alone with dft 5 and 2 coats gives 10; primer 3 x 1 plus topcoat
\* 3 x 2 gives 9.
C7_SummaryTotals ==
    MultiReturned =>
        LET sys == input.system
            out == result.value
            Thickness(name) == Mul(LayerAt(sys, name).dft, LayerAt(sys, name).coats)
            Gallons(name) == LayerAt(out.layers, name).totalGallons
            Cost(name) == Mul(LayerAt(out.layers, name).totalGallons,
                              PriceOf(LayerAt(sys, name)))
        IN /\ out.summary.totalDFT =
                Div(RoundTimes(SumNames(IncludedNames, Thickness), 10), Num(10))
           /\ out.summary.totalGallons = SumNames(IncludedNames, Gallons)
           /\ out.summary.costPerSquareFoot =
                Div(RoundTimes(Div(SumNames(IncludedNames, Cost), input.surfaceArea),
                               100), Num(100))
           /\ (KeysOf(sys) = {"topcoat"} /\ LayerAt(sys, "topcoat") = PlainTopcoat)
                => out.summary.totalDFT = Num(10)
           /\ (/\ KeysOf(sys) = {"primer", "topcoat"}
               /\ LayerAt(sys, "primer") = TestPrimer
               /\ LayerAt(sys, "topcoat") = TestTopcoat)
                => out.summary.totalDFT = Num(9)

\* the system of the test suite on 1000 sq ft at the default efficiency:
\* 9 mils, 3.9 + 8.9 gallons, 537.00 over 1000 sq ft
C7_Witness ==
    /\ MultiReturned
    /\ input.surfaceArea = Num(1000)
    /\ ~("transferEfficiency" \in DOMAIN input)
    /\ KeysOf(input.system) = {"primer", "topcoat"}
    /\ LayerAt(input.system, "primer") = TestPrimer
    /\ LayerAt(input.system, "topcoat") = TestTopcoat
    /\ result.value.summary.totalDFT = Num(9)
    /\ result.value.summary.totalGallons = Frac(128, 10)
    /\ result.value.summary.costPerSquareFoot = Frac(54, 100)

\* C8: the cost of an included layer is its returned totalGallons times its
\* price per gallon (0 when it has none), to cents, and summary.totalCost is
\* the sum of these products, to cents; totalWithWaste and estimatedCost do
\* not enter.
C8_SystemCost ==
    MultiReturned =>
        LET sys == input.system
            out == result.value
            Cost(name) == Mul(LayerAt(out.layers, name).totalGallons,
                              PriceOf(LayerAt(sys, name)))
        IN /\ \A name \in KeysOf(out.layers) :
                LayerAt(out.layers, name).cost = Div(RoundTimes(Cost(name), 100), Num(100))
           /\ out.summary.totalCost =
                Div(RoundTimes(SumNames(KeysOf(out.layers), Cost), 100), Num(100))

\* the system of the test suite: the primer costs 3.9 * 35 = 136.50 where its
\* estimatedCost, on 4.3 gallons with waste, is higher; the total is 537.00
C8_Witness ==
    /\ MultiReturned
    /\ input.surfaceArea = Num(1000)
    /\ ~("transferEfficiency" \in DOMAIN input)
    /\ KeysOf(input.system) = {"primer", "topcoat"}
    /\ LayerAt(input.system, "primer") = TestPrimer
    /\ LayerAt(input.system, "topcoat") = TestTopcoat
    /\ LayerAt(result.value.layers, "primer").cost = Frac(1365, 10)
    /\ Gt(LayerAt(result.value.layers, "primer").estimatedCost, Frac(1365, 10))
    /\ result.value.summary.totalCost = Num(537)

\* the rates of a layer computed at the given transfer efficiency
RatesAt(layer, efficiency) ==
    LET theoretical == Div(Mul(Num(1604), Div(layer.volumeSolids, Num(100))), layer.dft)
        practical == Div(Mul(theoretical, efficiency), Num(100))
    IN [practicalCoverage |-> Div(RoundTimes(practical, 10), Num(10)),
        coveragePerGallon |-> MathRound(practical),
        gallonsPerCoat |-> Div(CeilTimes(Div(input.surfaceArea, practical), 10), Num(10))]

\* the layer entry has the rates
HasRates(entry, rates) ==
    /\ entry.practicalCoverage = rates.practicalCoverage
    /\ entry.coveragePerGallon = rates.coveragePerGallon
    /\ entry.gallonsPerCoat = rates.gallonsPerCoat

\* the system-level transfer efficiency, 65 when omitted
SystemEfficiency ==
    IF "transferEfficiency" \in DOMAIN input THEN input.transferEfficiency ELSE Num(65)

\* C9 as stated: an included layer is computed with the system-level transfer
\* efficiency (65 when omitted), unless the layer has a transfer efficiency of
\* its own, which is then used for that layer.
C9_Original ==
    MultiReturned =>
        \A name \in KeysOf(result.value.layers) :
            LET layer == LayerAt(input.system, name)
            IN HasRates(LayerAt(result.value.layers, name),
                        RatesAt(layer, IF "transferEfficiency" \in DOMAIN layer
                                       THEN layer.transferEfficiency
                                       ELSE SystemEfficiency))

\* C9 amended: every included layer is computed with the system-level
\* transfer efficiency (65 when omitted), also a layer that has a transfer
\* efficiency of its own.
C9_SystemEfficiency ==
    MultiReturned =>
        \A name \in KeysOf(result.value.layers) :
            HasRates(LayerAt(result.value.layers, name),
                     RatesAt(LayerAt(input.system, name), SystemEfficiency))

\* a layer with its own efficiency of 100 in a system without a system-level
\* efficiency has been computed at 65: 271.1 sq ft per gallon, not 417
C9_Witness ==
    /\ MultiReturned
    /\ ~("transferEfficiency" \in DOMAIN input)
    /\ "intermediate" \in KeysOf(result.value.layers)
    /\ LayerAt(input.system, "intermediate") = OwnEfficiencyLayer
    /\ LayerAt(result.value.layers, "intermediate").practicalCoverage = Frac(2711, 10)

\* the description of one included layer, <<>> for any other layer
Line(name, title) ==
    IF name \in IncludedNames
    THEN LET layer == LayerAt(input.system, name)
         IN <<title \o ": " \o NumberToString(Mul(layer.dft, layer.coats)) \o " mils DFT">>
    ELSE <<>>

\* the lines joined by " | "
Joined(lines) ==
    IF Len(lines) = 0 THEN ""
    ELSE IF Len(lines) = 1 THEN lines[1]
    ELSE IF Len(lines) = 2 THEN lines[1] \o " | " \o lines[2]
    ELSE lines[1] \o " | " \o lines[2] \o " | " \o lines[3]

\* C10: systemDescription lists exactly the included layers in the order
\* primer, intermediate, topcoat, whatever the key order of the input, each as
\* "<Name>: <dft * coats> mils DFT", joined by " | "; it is empty when no
\* layer is included.
C10_SystemDescription ==
    MultiReturned =>
        LET sys == input.system
            text == result.value.summary.systemDescription
        IN /\ text = Joined(Line("primer", "Primer")
                            \o Line("intermediate", "Intermediate")
                            \o Line("topcoat", "Topcoat"))
           /\ IncludedNames = {} <=> text = ""
           /\ (/\ KeysOf(sys) = {"primer", "topcoat"}
               /\ LayerAt(sys, "primer") = TestPrimer
               /\ LayerAt(sys, "topcoat") = TestTopcoat)
                => text = "Primer: 3 mils DFT | Topcoat: 6 mils DFT"
           /\ (/\ IncludedNames = LayerNames
               /\ LayerAt(sys, "primer") = TestPrimer
               /\ LayerAt(sys, "intermediate") = OwnEfficiencyLayer
               /\ LayerAt(sys, "topcoat") = PlainTopcoat)
                => text = "Primer: 3 mils DFT | Intermediate: 2.5 mils DFT | Topcoat: 10 mils DFT"

\* a system given with the topcoat first, a coatless intermediate layer and
\* the primer last is described primer first, without the intermediate layer
C10_Witness ==
    /\ MultiReturned
    /\ Len(input.system) = 3
    /\ input.system[1].key = "topcoat" /\ input.system[1].layer = TestTopcoat
    /\ input.system[2].key = "intermediate" /\ input.system[2].layer.coats = Num(0)
    /\ input.system[3].key = "primer" /\ input.system[3].layer = TestPrimer
    /\ result.value.summary.systemDescription = "Primer: 3 mils DFT | Topcoat: 6 mils DFT"
---------------------------------------------------------------------------
(* Error propagation *)

ProjectCalled == fn = "estimateProjectCost" /\ result # NoResult
ProjectReturned == ProjectCalled /\ ~result.threw

ValidationMessages ==
    {"Surface area must be greater than 0",
     "Volume solids must be between 0 and 100",
     "Target DFT must be greater than 0"}

\* a layer applied to an area violates a precondition of the coverage engine
LayerFailsValidation(area, layer) ==
    \/ Le(area, Num(0))
    \/ Le(layer.volumeSolids, Num(0)) \/ Gt(layer.volumeSolids, Num(100))
    \/ Le(layer.dft, Num(0))

\* some layer of the system that is present with coats > 0 fails validation
SystemFails(area, system) ==
    \E i \in 1 .. Len(system) :
        HasCoats(system[i]) /\ LayerFailsValidation(area, system[i].layer)

SurfaceFails(surface) == SystemFails(surface.area, surface.coatingSystem)

\* the outcome is a validation error and carries nothing else
OnlyError(outcome) ==
    /\ outcome.threw
    /\ DOMAIN outcome = {"threw", "message"}
    /\ outcome.message \in ValidationMessages

\* C11: when an included layer of a multi-coat system fails coverage
\* validation, calculateMultiCoatSystem raises that error and returns
\* nothing, and when a surface of a project fails, estimateProjectCost raises
\* and returns no breakdown, whatever was computed before the failure.
C11_NoPartialResult ==
    /\ (MultiCalled /\ SystemFails(input.surfaceArea, input.system))
            => OnlyError(result)
    /\ (ProjectCalled /\ \E i \in 1 .. Len(input.surfaces) : SurfaceFails(input.surfaces[i]))
            => OnlyError(result)

\* a project whose first surface is computed and whose second surface has a
\* primer of 101% solids has raised the volume-solids error
C11_Witness ==
    /\ ProjectCalled
    /\ Len(input.surfaces) = 2
    /\ ~SurfaceFails(input.surfaces[1])
    /\ ~calculateMultiCoatSystem(SurfaceMaterialsInput(input.surfaces[1])).threw
    /\ input.surfaces[2].coatingSystem = FailingSystem
    /\ result = Throw("Volume solids must be between 0 and 100")

---------------------------------------------------------------------------
(* Properties of calculateDewPoint *)

DewCalled == fn = "calculateDewPoint" /\ result # NoResult
DewReturned == DewCalled /\ ~result.threw

\* the Magnus dew point of the specification, with A = 17.27 and B = 237.7
MagnusDewPoint(temperature, humidity) ==
    LET A == Frac(1727, 100)
        B == Frac(2377, 10)
        a == Float(Add(Div(Mul(A, temperature), Add(B, temperature)),
                       MathLog(Div(humidity, Num(100)))))
    IN Div(Mul(B, a), Sub(A, a))

\* C12: for every input, calculateDewPoint returns the Magnus dew point,
\* the margin of the surface temperature (air temperature - 5) over it and
\* the dew point + 5 as minimum surface temperature, each to one decimal,
\* and isSafe is true exactly when the unrounded margin is >= 5.
C12_SafetyDecision ==
    DewCalled =>
        LET dew == MagnusDewPoint(input.temperature, input.humidity)
            margin == Sub(Sub(input.temperature, Num(5)), dew)
        IN /\ ~result.threw
           /\ result.value.dewPoint = RoundTenth(dew)
           /\ result.value.currentMargin = RoundTenth(margin)
           /\ result.value.isSafe = Ge(margin, Num(5))
           /\ result.value.minimumSurfaceTemp = RoundTenth(Add(dew, Num(5)))

\* at 95 degrees and 65% humidity the dew point is 83.8, the margin of the
\* surface at 90 degrees is 6.2 and painting is safe
C12_Witness ==
    /\ DewReturned
    /\ input = [temperature |-> Num(95), humidity |-> Num(65)]
    /\ result.value.dewPoint = Frac(838, 10)
    /\ result.value.currentMargin = Frac(62, 10)
    /\ result.value.minimumSurfaceTemp = Frac(888, 10)
    /\ result.value.isSafe

\* x is within tolerance of the target
Near(x, target, tolerance) == Le(AbsNum(Sub(x, target)), tolerance)

\* C13: at 75 degrees and 65% humidity calculateDewPoint returns a dew point
\* of about 61.6 and a margin of about 8.4 (both within half a degree) under
\* the surface at 70 degrees, and isSafe = true.
C13_QuickStartExample ==
    (DewCalled /\ input = [temperature |-> Num(75), humidity |-> Num(65)]) =>
        /\ ~result.threw
        /\ Near(result.value.dewPoint, Frac(616, 10), Frac(1, 2))
        /\ Near(result.value.currentMargin, Frac(84, 10), Frac(1, 2))
        /\ result.value.currentMargin = RoundTenth(Sub(Num(70), dewPoint(input)))
        /\ result.value.isSafe

\* C14: an unsafe result's recommendation names the returned
\* minimumSurfaceTemp, the dew point + margin to one decimal.
C14_RecommendationTemperature ==
    (DewReturned /\ ~result.value.isSafe) =>
        result.value.recommendation =
            "[!] Warning: Risk of condensation. Wait until surface temp is above "
            \o NumberToString(result.value.minimumSurfaceTemp) \o "°F"

\* C18 as stated: at 100% humidity some temperature of the result is NaN or
\* infinite.
C18_Original ==
    (DewCalled /\ input.humidity = Num(100)) =>
        /\ ~result.threw
        /\ \/ ~IsFinite(result.value.dewPoint)
           \/ ~IsFinite(result.value.currentMargin)
           \/ ~IsFinite(result.value.minimumSurfaceTemp)

\* C18: at 100% humidity and a temperature above -237.7 the result is
\* finite: the dew point is the air temperature, the margin is -5 and
\* painting is not safe.  A humidity of 0 or less, or the temperature
\* -237.7, gives a result whose temperatures are NaN, and no error.
C18_SaturatedAir ==
    DewCalled =>
        /\ ~result.threw
        /\ (input.humidity = Num(100) /\ Gt(input.temperature, Frac(-2377, 10))) =>
               /\ result.value.dewPoint = RoundTenth(input.temperature)
               /\ result.value.currentMargin = Num(-5)
               /\ result.value.minimumSurfaceTemp
                      = RoundTenth(Add(input.temperature, Num(5)))
               /\ ~result.value.isSafe
        /\ (Le(input.humidity, Num(0)) \/ input.temperature = Frac(-2377, 10)) =>
               /\ IsNaN(result.value.dewPoint)
               /\ IsNaN(result.value.currentMargin)
               /\ IsNaN(result.value.minimumSurfaceTemp)
               /\ ~result.value.isSafe

\* at 75 degrees and 100% humidity the dew point returned is 75
C18_Witness ==
    /\ DewReturned
    /\ input = [temperature |-> Num(75), humidity |-> Num(100)]
    /\ result.value.dewPoint = Num(75)
    /\ result.value.currentMargin = Num(-5)

---------------------------------------------------------------------------
(* Properties of estimateProjectCost *)

\* the production rate of the specification: the table over walls, ceilings,
\* floors and trim in good, fair and poor condition, and the baseline 150
TableRate(type, condition) ==
    CASE type = "walls" /\ condition = "good" -> Num(200)
      [] type = "walls" /\ condition = "fair" -> Num(150)
      [] type = "walls" /\ condition = "poor" -> Num(100)
      [] type = "ceilings" /\ condition = "good" -> Num(150)
      [] type = "ceilings" /\ condition = "fair" -> Num(120)
      [] type = "ceilings" /\ condition = "poor" -> Num(80)
      [] type = "floors" /\ condition = "good" -> Num(250)
      [] type = "floors" /\ condition = "fair" -> Num(200)
      [] type = "floors" /\ condition = "poor" -> Num(150)
      [] type = "trim" /\ condition = "good" -> Num(50)
      [] type = "trim" /\ condition = "fair" -> Num(40)
      [] type = "trim" /\ condition = "poor" -> Num(30)
      [] OTHER -> Num(150)

RECURSIVE SumSeq(_)
\* the sum of a sequence of numbers
SumSeq(s) == IF s = <<>> THEN Num(0) ELSE Add(Head(s), SumSeq(Tail(s)))

\* the hours of each surface of the input: area / rate
HoursOf(surfaces) ==
    [i \in 1 .. Len(surfaces) |->
        Div(surfaces[i].area, TableRate(surfaces[i].type, surfaces[i].condition))]

\* the transfer efficiency a surface is costed at
CostedEfficiency(surface) ==
    IF "transferEfficiency" \in DOMAIN surface /\ surface.transferEfficiency # Num(0)
    THEN surface.transferEfficiency ELSE Num(65)

\* the total cost of the multi-coat system of each surface of the input
MaterialsOf(surfaces) ==
    [i \in 1 .. Len(surfaces) |->
        calculateMultiCoatSystem(
            [surfaceArea |-> surfaces[i].area,
             system |-> surfaces[i].coatingSystem,
             transferEfficiency |-> CostedEfficiency(surfaces[i])]).value.summary.totalCost]

AreasOf(surfaces) == [i \in 1 .. Len(surfaces) |-> surfaces[i].area]

---------------------------------------------------------------------------
(* Degenerate inputs *)

Called == result # NoResult

\* the functions that reach calculatePaintCoverage
CoverageFunctions ==
    {"calculatePaintCoverage", "calculateMultiCoatSystem", "estimateProjectCost",
     "calculatePrimerNeeded"}

\* the two systems of an ROI input cost the same a year: no annual savings
NoSavings(in) ==
    /\ in.currentSystem.maintenanceCost = in.proposedSystem.maintenanceCost
    /\ in.currentSystem.lifespan = in.proposedSystem.lifespan
    /\ "heatTransfer" \notin DOMAIN in.currentSystem
    /\ "reflectivity" \notin DOMAIN in.proposedSystem

\* C19: an error raised by any function is one of the three coverage
\* errors; a function that does not reach calculatePaintCoverage returns a
\* value for every input; and a zero denominator shows as a NaN or infinite
\* field: the payback period of calculateROI without annual savings, the
\* VOC per square foot of calculateVOC with area 0, the wet film thickness
\* of calculateWFT with a reduction of 100%.
C19_OnlyCoverageErrors ==
    Called =>
        /\ result.threw => result.message \in ValidationMessages
        /\ fn \notin CoverageFunctions => ~result.threw
        /\ (fn = "calculateROI" /\ NoSavings(input))
                => ~IsFinite(result.value.roi.paybackPeriod)
        /\ (fn = "calculateVOC" /\ input.area = Num(0))
                => ~IsFinite(result.value.vocPerSqFt)
        /\ (/\ fn = "calculateWFT"
            /\ "reductionPercent" \in DOMAIN input
            /\ input.reductionPercent = Num(100))
                => ~IsFinite(result.value.wetFilmThickness)

\* calculateROI for two systems that both cost 1000 a year has returned an
\* infinite payback period for the initial cost of 20000
C19_Witness ==
    /\ fn = "calculateROI"
    /\ Called
    /\ NoSavings(input)
    /\ input.proposedSystem.initialCost = Num(20000)
    /\ ~result.threw
    /\ result.value.proposedSystem.annualSavings = Num(0)
    /\ result.value.roi.paybackPeriod = Infinity


---------------------------------------------------------------------------
(* Properties of a session of calls *)

Completed == 1 .. Len(history)

\* C15: two calls of the same function with the same input have the same
\* outcome, the same value returned or the same error raised, whatever calls
\* of the library were made before the first and between the two
C15_Deterministic ==
    \A i, j \in Completed :
        (history[i].fn = history[j].fn /\ history[i].input = history[j].input)
            => history[i].result = history[j].result

\* a call is made, a call on another input raises an error, and the first
\* call is made again: it returns the value it returned before
C15_Witness ==
    /\ Len(history) = 3
    /\ history[1].fn = history[3].fn
    /\ history[1].input = history[3].input
    /\ history[2].input # history[1].input
    /\ history[2].result.threw
    /\ ~history[1].result.threw
    /\ history[1].result = history[3].result
\* C16: the exported objects are read-only: whatever the caller does with
\* them, every entry keeps the value the module gave it, and so every
\* calculation is made with K = 1604, a dew-point margin of 5, the Magnus
\* coefficients 17.27 and 237.7 and a VOC limit of 150
C16_ReadOnlyConstants ==
    /\ \A p \in ReadEntries : Entry(constants, p) = Entry(ExportedConstants, p)
    /\ COVERAGE_CONSTANT = Num(1604)
    /\ DEW_POINT_MARGIN = Num(5)
    /\ MAGNUS_A = Frac(1727, 100)
    /\ MAGNUS_B = Frac(2377, 10)
    /\ VOC_LIMIT_NON_FLAT = Num(150)
    /\ \A i \in Completed :
          LET call == history[i]
          IN /\ call.fn = "calculatePaintCoverage" /\ ~call.result.threw
                    => call.result.value.theoreticalCoverage
                           = RoundTenth(Div(Mul(Num(1604),
                                                Div(call.input.volumeSolids, Num(100))),
                                            call.input.targetDFT))
             /\ call.fn = "calculateVOC" /\ ~call.result.threw
                    => call.result.value.isCompliant
                           = Le(call.input.vocContent, Num(150))

\* a calculation made after the caller assigned an entry: the coverage of the
\* example is no longer 208.5 square feet per gallon
C16_AssignedEntryIsUsed ==
    \A i \in Completed :
        LET call == history[i]
        IN call.fn = "calculatePaintCoverage" /\ ~call.result.threw
               => call.result.value.theoreticalCoverage = Frac(2085, 10)

\* a step in which a call completes
CallCompletes == result = NoResult /\ result' # NoResult

---------------------------------------------------------------------------
(* Properties of calculateROI *)

ROICalled == fn = "calculateROI" /\ result # NoResult

RECURSIVE PowerOf(_, _)
\* Math.pow(base, n) for a natural n
PowerOf(base, n) == IF n = 0 THEN Num(1) ELSE Float(Mul(PowerOf(base, n - 1), base))

\* the savings of a year from the fields of the input: the maintenance cost
\* per year of life and the energy terms of the two systems
YearlySavings(in) ==
    LET energy == IF "energyCosts" \in DOMAIN in THEN in.energyCosts ELSE Frac(12, 100)
        heat == IF "heatTransfer" \in DOMAIN in.currentSystem
                THEN in.currentSystem.heatTransfer ELSE Num(0)
        reflect == IF "reflectivity" \in DOMAIN in.proposedSystem
                   THEN in.proposedSystem.reflectivity ELSE Num(0)
        current == Add(Div(in.currentSystem.maintenanceCost, in.currentSystem.lifespan),
                       Div(Mul(Mul(heat, in.facilitySize), energy), Num(100)))
        proposed == Sub(Div(in.proposedSystem.maintenanceCost,
                            in.proposedSystem.lifespan),
                        Div(Mul(Mul(Mul(reflect, in.facilitySize), energy), Num(15)),
                            Num(10000)))
    IN Sub(current, proposed)

\* minus the investment plus the savings of the years 1 .. 10, each divided
\* by (1 + rate)^year
TenYearValue(savings, investment, rate) ==
    Add(Neg(investment),
        SumSeq([year \in 1 .. 10 |->
                   Float(Div(savings, PowerOf(Add(Num(1), rate), year)))]))

\* C21: the net present value calculateROI returns is, to the cent, minus the
\* initial cost of the proposed system plus the annual savings of the years
\* 1 to 10, each discounted by (1 + discountRate)^year, with a rate of 0.05
\* when none is given; the horizon is 10 years whatever the lifespans of the
\* two systems; and with a rate of 0 it is ten years of savings minus the
\* initial cost
C21_NetPresentValue ==
    ROICalled =>
        LET savings == YearlySavings(input)
            cost == input.proposedSystem.initialCost
            rate == IF "discountRate" \in DOMAIN input THEN input.discountRate
                    ELSE Frac(5, 100)
        IN /\ ~result.threw
           /\ result.value.roi.netPresentValue
                  = RoundCent(TenYearValue(savings, cost, rate))
           /\ rate = Num(0)
                  => result.value.roi.netPresentValue
                         = RoundCent(Sub(Mul(savings, Num(10)), cost))

\* a proposed system with a life of 5 years, 600 a year cheaper, for 20000 at
\* the rate of 0.05: ten discounted years of savings are worth less than
\* the 6000 they add up to
C21_Witness ==
    /\ ROICalled
    /\ "discountRate" \notin DOMAIN input
    /\ input.proposedSystem.lifespan = Num(5)
    /\ input.proposedSystem.initialCost = Num(20000)
    /\ YearlySavings(input) = Num(600)
    /\ result.value.proposedSystem.tenYearSavings = Num(6000)
    /\ Lt(result.value.roi.netPresentValue, Num(-14000))
    /\ Gt(result.value.roi.netPresentValue, Num(-20000))

---------------------------------------------------------------------------
(* Properties of calculateWFT *)

WFTCalled == fn = "calculateWFT" /\ result # NoResult

\* the gauge for a thickness
GaugeFor(thickness) ==
    CASE Le(thickness, Num(25)) -> "0-25 mil gauge"
      [] ~Le(thickness, Num(25)) /\ Le(thickness, Num(50)) -> "0-50 mil gauge"
      [] ~Le(thickness, Num(50)) /\ Le(thickness, Num(100)) -> "0-100 mil gauge"
      [] OTHER -> "Use multiple passes or special gauge"

\* the wet film of an input, not rounded
WetFilmOf(in) ==
    LET reduction == IF "reductionPercent" \in DOMAIN in THEN in.reductionPercent
                     ELSE Num(0)
        solids == Mul(in.volumeSolids, Sub(Num(1), Div(reduction, Num(100))))
    IN [solids |-> solids, thickness |-> Mul(Div(in.targetDFT, solids), Num(100))]

\* the claim as stated: the gauge is the one for the returned thickness
C22_Original ==
    WFTCalled => result.value.wetFilmGauge = GaugeFor(result.value.wetFilmThickness)

\* C22: calculateWFT returns, to one decimal, the solids volumeSolids * (1 -
\* reductionPercent / 100) (no reduction when omitted) and the thickness
\* targetDFT / solids * 100; the gauge is chosen by the thresholds 25, 50 and
\* 100 from the thickness before it is rounded, so it is the gauge for the
\* returned thickness except where rounding brings a thickness above a
\* threshold down onto it; and the last tip names the gauge
C22_GaugeOfWetFilm ==
    WFTCalled =>
        LET wet == WetFilmOf(input)
            value == result.value
            tips == value.applicationTips
        IN /\ ~result.threw
           /\ value.adjustedSolids = RoundTenth(wet.solids)
           /\ value.wetFilmThickness = RoundTenth(wet.thickness)
           /\ value.wetFilmGauge = GaugeFor(wet.thickness)
           /\ value.wetFilmGauge # GaugeFor(value.wetFilmThickness)
                  => /\ value.wetFilmThickness \in {Num(25), Num(50), Num(100)}
                     /\ Gt(wet.thickness, value.wetFilmThickness)
           /\ tips # <<>>
           /\ tips[Len(tips)]
                  = "Check WFT immediately after application using "
                        \o value.wetFilmGauge

\* 14.65 mils dry at 65% solids thinned by 10%: the wet film of 25.04 mils is
\* returned as 25 with the gauge up to 50 mils
C22_Witness ==
    /\ WFTCalled
    /\ input = [targetDFT |-> Frac(1465, 100), volumeSolids |-> Num(65),
                reductionPercent |-> Num(10)]
    /\ result.value.wetFilmThickness = Num(25)
    /\ result.value.adjustedSolids = Frac(585, 10)
    /\ result.value.wetFilmGauge = "0-50 mil gauge"
    /\ result.value.applicationTips
           = <<"Apply in multiple passes to avoid sagging",
               "Check WFT immediately after application using 0-50 mil gauge">>

---------------------------------------------------------------------------
(* Properties of calculateSurfaceArea *)

SurfaceCalled == fn = "calculateSurfaceArea" /\ result # NoResult

\* a dimension that is left out counts as 0
Dim(in, key) == GetOr(in.dimensions, key, Num(0))

\* the radius, given directly or as half the diameter
RadiusOf(in) ==
    IF Dim(in, "radius") # Num(0) THEN Dim(in, "radius")
    ELSE Div(Dim(in, "diameter"), Num(2))

EndsIncluded(in) == Dim(in, "includeEnds") # Num(0)

\* the cylinder of the formula: 2 pi r h, plus 2 pi r^2 with the ends
CylinderFormula(in) ==
    Add(Mul(Mul(Num(2), MathPI), Mul(RadiusOf(in), Dim(in, "height"))),
        IF EndsIncluded(in)
        THEN Mul(Mul(Num(2), MathPI), Mul(RadiusOf(in), RadiusOf(in)))
        ELSE Num(0))

\* the gross area by shape; the cylinder is passed in
ShapeFormula(in, cylinder) ==
    CASE in.shape = "rectangular" ->
            IF Dim(in, "height") # Num(0)
            THEN Mul(Mul(Num(2), Add(Dim(in, "length"), Dim(in, "width"))),
                     Dim(in, "height"))
            ELSE Mul(Dim(in, "length"), Dim(in, "width"))
      [] in.shape = "cylindrical" -> cylinder
      [] in.shape = "spherical" ->
            Mul(Mul(Num(4), MathPI), Mul(RadiusOf(in), RadiusOf(in)))
      [] in.shape = "complex" -> Dim(in, "totalArea")

\* sum of width * height * quantity over the openings
OpeningsOf(in) ==
    SumSeq([i \in 1 .. Len(GetOr(in, "deductions", <<>>)) |->
               Mul(Mul(in.deductions[i].width, in.deductions[i].height),
                   in.deductions[i].quantity)])

\* the returned areas are those of a gross area: each amount to one decimal
AreasFollow(gross) ==
    /\ result.value.grossArea = RoundTenth(gross)
    /\ result.value.deductionArea = RoundTenth(OpeningsOf(input))
    /\ result.value.netArea = RoundTenth(Sub(gross, OpeningsOf(input)))
    /\ result.value.addWasteFactor =
           RoundTenth(Div(Sub(gross, OpeningsOf(input)), Num(10)))
    /\ result.value.measurement.squareFeet = result.value.netArea

\* the same input with the radius given as a diameter
AsDiameter(in) ==
    [in EXCEPT !.dimensions =
        With([key \in DOMAIN @ \ {"radius"} |-> @[key]], "diameter",
             Mul(Num(2), in.dimensions.radius))]

\* C23 as stated: the gross area of a cylinder is 2 pi r h, plus 2 pi r^2 when
\* the ends are included, whatever the height
C23_Original ==
    SurfaceCalled => AreasFollow(ShapeFormula(input, CylinderFormula(input)))

\* C23: the deductions are subtracted before the 10% waste allowance for all
\* four shapes, over the gross area of the shape's formula, where a cylinder
\* without a non-zero height has a gross area of 0 even with its ends
\* included; a diameter of 2r in place of a radius r gives the same result
C23_DeductionsBeforeWaste ==
    SurfaceCalled =>
        /\ ~result.threw
        /\ AreasFollow(ShapeFormula(input,
               IF Dim(input, "height") # Num(0) THEN CylinderFormula(input)
               ELSE Num(0)))
        /\ (Has(input.dimensions, "radius") /\ ~Has(input.dimensions, "diameter")
               /\ input.dimensions.radius # Num(0))
           => calculateSurfaceArea(AsDiameter(input)) = result

\* a capped cylinder given by its diameter, with two kinds of openings
C23_Witness ==
    /\ SurfaceCalled
    /\ input.shape = "cylindrical"
    /\ input.dimensions = [diameter |-> Num(4), height |-> Num(5),
                           includeEnds |-> Num(1)]
    /\ Has(input, "deductions") /\ Len(input.deductions) = 2
    /\ result.value.grossArea = Num(88)
    /\ result.value.deductionArea = Num(26)
    /\ result.value.netArea = Num(62)
    /\ result.value.addWasteFactor = Frac(62, 10)

---------------------------------------------------------------------------
(* Properties of calculateVOC *)

VOCCalled == fn = "calculateVOC" /\ result # NoResult

Recommends(text) ==
    \E i \in 1 .. Len(result.value.recommendations) :
        result.value.recommendations[i] = text

NoVentilation == ~Has(input, "ventilationRate") \/ input.ventilationRate = Num(0)

\* C24: calculateVOC reports compliance exactly when vocContent <= 150,
\* whatever category the caller names, and always returns the limit 150; the
\* recommendation about exceeding the limit comes with the one about low-VOC
\* alternatives; without ventilation the air changes and the clear time are 0
\* and the recommendation to increase ventilation is made
C24_NonFlatLimit ==
    VOCCalled =>
        /\ ~result.threw
        /\ result.value.isCompliant = Le(input.vocContent, Num(150))
        /\ result.value.regulatoryLimit = Num(150)
        /\ Recommends("[!] VOC content exceeds regulatory limits")
               => Recommends("Consider using low-VOC alternatives (<50 g/L)")
        /\ NoVentilation =>
               /\ result.value.airChangesPerHour = Num(0)
               /\ result.value.estimatedClearTime = Num(0)
               /\ Recommends("Increase ventilation to minimum 4 air changes per hour")

\* a flat coating at 150 g/L without ventilation is reported compliant
C24_Witness ==
    /\ VOCCalled
    /\ Has(input, "category") /\ input.category = "FLAT"
    /\ input.vocContent = Num(150)
    /\ ~Has(input, "ventilationRate")
    /\ result.value.isCompliant
    /\ result.value.recommendations =
           <<"Increase ventilation to minimum 4 air changes per hour",
             "Consider using low-VOC alternatives (<50 g/L)">>

---------------------------------------------------------------------------
(* Properties of calculatePrimerNeeded *)

PrimerCalled == fn = "calculatePrimerNeeded" /\ result # NoResult

\* the substrate and the porosity of a call, with the defaults of the
\* signature
SubstrateOf(in) ==
    <<GetOr(in, "substrateType", "drywall"), GetOr(in, "porosity", "medium")>>

\* C25: for a fixed surface area, calls with different substrate types or
\* porosity levels return different primer requirements
C25_SubstrateDeterminesCoverage ==
    (PrimerCalled /\ ~result.threw) =>
        \A other \in PrimerInputs :
            (other.surfaceArea = input.surfaceArea
                 /\ SubstrateOf(other) # SubstrateOf(input))
            => calculatePrimerNeeded(other) # result

---------------------------------------------------------------------------
(* Properties of the order of the validation errors *)

\* the first violated precondition in the order area, volume solids, DFT;
\* the empty string when none is violated
FirstError(area, solids, dft) ==
    IF area[1] <= 0 THEN "Surface area must be greater than 0"
    ELSE IF solids[1] <= 0 \/ solids[1] > 100 * solids[2]
         THEN "Volume solids must be between 0 and 100"
    ELSE IF dft[1] <= 0 THEN "Target DFT must be greater than 0"
    ELSE ""

PrecedenceOrder == <<"primer", "intermediate", "topcoat">>

\* the layer of that name is included in the input system and is invalid
InvalidLayer(name) ==
    /\ name \in IncludedNames
    /\ LayerFailsValidation(input.surfaceArea, LayerAt(input.system, name))

\* the number of preconditions a coverage input violates
ViolationCount(in) ==
    (IF in.surfaceArea[1] <= 0 THEN 1 ELSE 0)
    + (IF FirstError(Num(1), in.volumeSolids, Num(1)) # "" THEN 1 ELSE 0)
    + (IF in.targetDFT[1] <= 0 THEN 1 ELSE 0)

\* C26: calculatePaintCoverage reports the surface-area error before the
\* volume-solids error before the target-DFT error; calculateMultiCoatSystem
\* reports the error of the first invalid included layer in the order primer,
\* intermediate, topcoat, whatever the key order of the input, and a
\* non-positive area is reported as the surface-area error by the first
\* included layer
C26_ErrorPrecedence ==
    /\ (CoverageCalled /\ result.threw) =>
           result.message =
               FirstError(input.surfaceArea, input.volumeSolids, input.targetDFT)
    /\ (MultiCalled /\ result.threw) =>
           \E k \in 1 .. 3 :
               /\ InvalidLayer(PrecedenceOrder[k])
               /\ \A j \in 1 .. k - 1 : ~InvalidLayer(PrecedenceOrder[j])
               /\ result.message =
                      FirstError(input.surfaceArea,
                                 LayerAt(input.system, PrecedenceOrder[k]).volumeSolids,
                                 LayerAt(input.system, PrecedenceOrder[k]).dft)
    /\ (MultiCalled /\ input.surfaceArea[1] <= 0 /\ IncludedNames # {}) =>
           result = Throw("Surface area must be greater than 0")

\* a system written topcoat first, whose topcoat has no thickness and whose
\* primer has 101% solids, has raised the primer's error
C26_Witness ==
    /\ MultiCalled
    /\ input.surfaceArea = Num(1000)
    /\ Len(input.system) = 2
    /\ input.system[1].key = "topcoat" /\ input.system[2].key = "primer"
    /\ InvalidLayer("topcoat") /\ InvalidLayer("primer")
    /\ LayerAt(input.system, "topcoat").dft = Num(0)
    /\ result = Throw("Volume solids must be between 0 and 100")

\* a coverage call that violates all three preconditions has raised the
\* surface-area error
C26_CoverageWitness ==
    /\ CoverageCalled
    /\ ViolationCount(input) = 3
    /\ result = Throw("Surface area must be greater than 0")

---------------------------------------------------------------------------
(* Properties of the layers calculateMultiCoatSystem leaves out *)

\* the entry of the input system is present without coats and with solids or
\* a thickness out of range
LeftOutInvalid(entry) ==
    /\ ~HasCoats(entry)
    /\ LayerFailsValidation(Num(1), entry.layer)

\* the result of a system without layers, for an area
NoLayers(area) ==
    Return([
        layers |-> <<>>,
        summary |-> [
            totalDFT |-> Num(0),
            totalCost |-> Num(0),
            costPerSquareFoot |-> IF area = Num(0) THEN NaN ELSE Num(0),
            totalGallons |-> Num(0),
            systemDescription |-> ""]])

\* C27: calculateMultiCoatSystem validates only through the layers it
\* includes: it raises only when an included layer is invalid, so a layer with
\* coats <= 0 raises nothing, and a system with no included layer returns
\* empty layers, totals of 0, an empty description and a cost per square foot
\* of 0 (not a number for area 0), even for an area <= 0
C27_OnlyIncludedLayersValidated ==
    MultiCalled =>
        /\ result.threw => SystemFails(input.surfaceArea, input.system)
        /\ IncludedNames = {} => result = NoLayers(input.surfaceArea)

\* a system whose only layer has -1 coats, 101% solids and no thickness, on
\* an area of 0, has returned the empty result
C27_Witness ==
    /\ MultiCalled
    /\ input.surfaceArea = Num(0)
    /\ Len(input.system) = 1
    /\ LeftOutInvalid(input.system[1])
    /\ ~result.threw
    /\ result.value.layers = <<>>
    /\ IsNaN(result.value.summary.costPerSquareFoot)
    /\ result.value.summary.systemDescription = ""

\* a system with a valid topcoat and a primer left out with 101% solids has
\* returned the topcoat alone
C27_LeftOutWitness ==
    /\ MultiCalled
    /\ input.surfaceArea = Num(1000)
    /\ \E i \in 1 .. Len(input.system) : LeftOutInvalid(input.system[i])
    /\ ~result.threw
    /\ KeysOf(result.value.layers) = {"topcoat"}

---------------------------------------------------------------------------
(* Properties of the fields of a calculateDewPoint result *)

\* the returned margin is the surface temperature less the returned dew
\* point, and the returned minimum is the returned dew point plus 5
TemperaturesAgree ==
    /\ result.value.currentMargin =
           Sub(Sub(input.temperature, Num(5)), result.value.dewPoint)
    /\ result.value.minimumSurfaceTemp = Add(result.value.dewPoint, Num(5))

\* C28 as stated: isSafe is true exactly when the returned margin is >= 5
C28_Original ==
    DewReturned =>
        /\ result.value.isSafe = Ge(result.value.currentMargin, Num(5))
        /\ TemperaturesAgree

\* C28: the fields of a result agree up to the rounding of the margin: a safe
\* result has a returned margin >= 5 and a returned margin above 5 is safe,
\* while a returned margin of exactly 5.0 is unsafe when the margin before
\* rounding is below 5; the returned margin is (temperature - 5) less the
\* returned dew point and the returned minimum is the returned dew point + 5
C28_FieldsAgreeUpToRounding ==
    (DewReturned /\ IsFinite(result.value.dewPoint)) =>
        /\ result.value.isSafe => Ge(result.value.currentMargin, Num(5))
        /\ Gt(result.value.currentMargin, Num(5)) => result.value.isSafe
        /\ TemperaturesAgree

\* at 60 degrees and 62% the returned margin is 5.0 and the result is unsafe
C28_Witness ==
    /\ DewReturned
    /\ input = [temperature |-> Num(60), humidity |-> Num(62)]
    /\ result.value.dewPoint = Num(50)
    /\ result.value.currentMargin = Num(5)
    /\ result.value.minimumSurfaceTemp = Num(55)
    /\ ~result.value.isSafe

---------------------------------------------------------------------------
(* Properties of calculateSpreadingRate *)

SpreadingCalled == fn = "calculateSpreadingRate" /\ result # NoResult

\* the dry film of a wet film: wft * volumeSolids / 100
DryFilm(in) == Div(Mul(in.wft, in.volumeSolids), Num(100))

\* the theoretical coverage the coverage engine returns for the solids and
\* the dry film of a wet film
EngineCoverage(in) ==
    calculatePaintCoverage([surfaceArea |-> Num(1000),
                            volumeSolids |-> in.volumeSolids,
                            targetDFT |-> DryFilm(in)]).value.theoreticalCoverage

\* C29: for wft > 0 and 0 < volumeSolids <= 100 the spreading rate is the
\* theoretical coverage calculatePaintCoverage returns for the same solids
\* and the dry film wft * volumeSolids / 100
C29_AgreesWithCoverage ==
    (SpreadingCalled /\ Gt(input.wft, Num(0))
         /\ Gt(input.volumeSolids, Num(0)) /\ Le(input.volumeSolids, Num(100)))
    => result = Return(EngineCoverage(input))

---------------------------------------------------------------------------
(* Properties of the default transfer efficiency *)

\* the practical coverage of an input layer at a transfer efficiency, to one
\* decimal
PracticalAt(layer, efficiency) ==
    RoundTenth(Div(Mul(Div(Mul(Num(1604), Div(layer.volumeSolids, Num(100))),
                           layer.dft),
                       efficiency),
                   Num(100)))

\* C30: estimateProjectCost costs a surface whose transferEfficiency is
\* absent or 0 at 65%, and a surface with a non-zero transferEfficiency with
\* the total calculateMultiCoatSystem returns for its area, system and
\* efficiency; calculateMultiCoatSystem uses 65 only when transferEfficiency
\* is absent, and an efficiency of 0 as it is given
C30_DefaultEfficiency ==
    /\ ProjectReturned =>
           \A i \in 1 .. Len(input.surfaces) :
               result.value.breakdown[i].materialCost =
                   MaterialsOf(input.surfaces)[i]
    /\ (MultiCalled /\ ~Has(input, "transferEfficiency")) =>
           result = calculateMultiCoatSystem(With(input, "transferEfficiency", Num(65)))
    /\ (MultiReturned /\ Has(input, "transferEfficiency")) =>
           \A i \in 1 .. Len(result.value.layers) :
               result.value.layers[i].layer.practicalCoverage =
                   PracticalAt(LayerAt(input.system, result.value.layers[i].key),
                               input.transferEfficiency)

\* a project whose only surface has a transfer efficiency of 0 has the
\* material cost of 65%: 4.5 gallons at 45
C30_Witness ==
    /\ ProjectReturned
    /\ Len(input.surfaces) = 1
    /\ Has(input.surfaces[1], "transferEfficiency")
    /\ input.surfaces[1].transferEfficiency = Num(0)
    /\ result.value.breakdown[1].materialCost = Frac(2025, 10)

\* calculateMultiCoatSystem given a transfer efficiency of 0 has computed
\* with it: no practical coverage and no finite quantity
C30_ZeroEfficiencyWitness ==
    /\ MultiReturned
    /\ input \in ZeroEfficiencyInputs
    /\ \A i \in 1 .. Len(result.value.layers) :
           result.value.layers[i].layer.practicalCoverage = Num(0)
    /\ result.value.summary.totalGallons = Infinity

====
